---- MODULE Spec2Model ----
(***************************************************************************)
(* Intent routing (ShrimpAgent) and the prediction result it summarises.   *)
(*                                                                         *)
(* Text is a sequence of characters.  A character is a one-element token:  *)
(* ASCII characters stand for themselves, a Vietnamese letter is written   *)
(* in Telex (dd = d-stroke, aa/ee/oo = circumflex, aw/ow/uw = breve/horn,  *)
(* a trailing s f r x j = the tone mark), so <<"t","oo","m">> is the       *)
(* three-character word for shrimp and <<"t","o","m">> its unaccented      *)
(* spelling.  An upper-case letter keeps its base letter(s) in upper case. *)
(***************************************************************************)
EXTENDS Integers, Sequences, FiniteSets, TLC

VARIABLES
    text,        \* SpecIntent: the argument handed to _rule_intent
    label,       \* SpecIntent: the label _rule_intent returned ("" before the call)
    pc,          \* answer(): where the call stands
    question,    \* answer(): argument
    water_data,  \* answer(): argument after `water_data or {}`
    prediction,  \* answer(): argument after `prediction or {}`
    has_data,    \* answer(): local
    has_pred,    \* answer(): local
    rule_it,     \* answer(): what _rule_intent returned at line 166
    it,          \* answer(): the intent used for dispatch
    llm_out,     \* answer(): what the classification call returned
    qa_chain,    \* ShrimpAgent.qa_chain: "None" or "chain"
    rag_resp,    \* answer(): how the retrieval call ended
    reply_resp,  \* answer(): how the reply-generation call ended
    calls,       \* outbound calls made by the current answer(), in order
    prompt,      \* the reply-generation prompt built by the current answer()
    ret,         \* what answer() returned or raised
    last_refusal,\* SpecRefusal: the last "enter readings first" reply a caller got
    y,           \* SpecPredict: y1[0], y2[0], y3[0], y4[0] the four models give
    result,      \* SpecPredict: the dict predict returned
    summary,     \* SpecPredict: the fact summary block rendered from result
    stage,       \* SpecPredict: how far the pipeline got
    error,       \* SpecPredict: the exception the pipeline raised
    raw,         \* SpecLocalize: the reply text before localization
    passes,      \* SpecLocalize: what each successive _localize_text gave
    session,     \* SpecChat: the Flask session of one browser, a dict
    users,       \* SpecChat: the ids of the registered users (rows of nguoi_dung)
    tin_nhan_chat, \* SpecChat: the rows the latest /chat request added to table tin_nhan_chat
    answered,    \* SpecChat: whether the latest /chat request called agent.answer
    boot,        \* SpecStartup: the module-level construction of app.py
    accounts,    \* SpecOfficer: columns vai_tro, ma_can_bo and xa of the rows of nguoi_dung, by id
    officer_env, \* SpecOfficer: the value of environment variable OFFICER_CODES
    thong_bao,   \* SpecOfficer: the rows of table thong_bao, in the order committed
    da_doc_thong_bao, \* SpecNotice: the rows of table da_doc_thong_bao
    reqs,        \* SpecNotice: the /api/notices/read requests in flight
    response     \* SpecOfficer: what the latest /profile or officer request was answered with

vars == <<text, label, pc, question, water_data, prediction, has_data, has_pred,
          rule_it, it, llm_out, qa_chain, rag_resp, reply_resp, calls, prompt, ret,
          last_refusal,
          y, result, summary, stage, error, raw, passes, session, users, tin_nhan_chat, answered, boot,
          accounts, officer_env, thong_bao, da_doc_thong_bao, reqs, response>>

agent_vars == <<pc, question, water_data, prediction, has_data, has_pred,
                rule_it, it, llm_out, qa_chain, rag_resp, reply_resp, calls, prompt, ret>>

intent_vars == <<text, label>>

predict_vars == <<y, result, summary, stage, error>>

localize_vars == <<raw, passes>>

chat_vars == <<session, users, tin_nhan_chat, answered>>

officer_vars == <<accounts, officer_env, thong_bao, da_doc_thong_bao, reqs, response>>

(***************************************************************************)
(* Bounds                                                                  *)
(***************************************************************************)
\* fragments concatenated into a question handed to _rule_intent
MaxFrags == 3

\* fragments concatenated into a question handed to answer()
MaxAgentFrags == 2

\* model outputs int(y[0]) range over -1..MaxLabel
MaxLabel == 2

\* fragments concatenated into a text handed to _localize_text
MaxLocalizeFrags == 3

\* question / reply exchanges a session's chat history grows to
MaxChats == 2

\* user ids are 1..MaxUsers
MaxUsers == 2

MaxNotices == 2

\* /api/notices/read requests are 1..MaxReqs
MaxReqs == 2

(***************************************************************************)
(* Python str helpers                                                      *)
(***************************************************************************)
\* the label variable before _rule_intent has returned
NoLabel == ""

\* Python None where a str is expected
PyNone == <<"NoneType">>

\* characters str.strip() removes
whitespace == {" ", "\t", "\n"}

greeting_prefixes ==
    {
      <<"h", "i">>,
      <<"h", "i", "i">>,
      <<"h", "e", "l", "l", "o">>,
      <<"h", "e", "l", "o">>,
      <<"h", "e", "y">>,
      <<"c", "h", "af", "o">>,
      <<"c", "h", "a", "o">>,
      <<"x", "i", "n", " ", "c", "h", "af", "o">>,
      <<"x", "i", "n", " ", "c", "h", "a", "o">>,
      <<"a", "l", "o">>,
      <<"a", " ", "l", "oo">>
    }

analysis_keywords ==
    {
      <<"p", "h", "aa", "n", " ", "t", "is", "c", "h">>,
      <<"p", "h", "a", "n", " ", "t", "i", "c", "h">>,
      <<"dd", "as", "n", "h", " ", "g", "i", "as">>,
      <<"d", "a", "n", "h", " ", "g", "i", "a">>,
      <<"n", "h", "aaj", "n", " ", "x", "es", "t">>,
      <<"n", "h", "a", "n", " ", "x", "e", "t">>,
      <<"h", "i", "eej", "n", " ", "t", "r", "aj", "n", "g">>,
      <<"h", "i", "e", "n", " ", "t", "r", "a", "n", "g">>,
      <<"t", "if", "n", "h", " ", "t", "r", "aj", "n", "g">>,
      <<"t", "i", "n", "h", " ", "t", "r", "a", "n", "g">>,
      <<"k", "ees", "t", " ", "q", "u", "ar">>,
      <<"k", "e", "t", " ", "q", "u", "a">>,
      <<"dd", "a", "n", "g", " ", "n", "h", "uw", " ", "t", "h", "ees", " ", "n", "af", "o">>,
      <<"d", "a", "n", "g", " ", "n", "h", "u", " ", "t", "h", "e", " ", "n", "a", "o">>,
      <<"p", "h", "aa", "n", " ", "l", "o", "aj", "i">>,
      <<"p", "h", "a", "n", " ", "l", "o", "a", "i">>,
      <<"r", "e", "v", "i", "e", "w">>,
      <<"c", "o", "i", " ", "g", "i", "us", "p">>,
      <<"c", "o", "i", " ", "d", "u", "m">>,
      <<"c", "o", "i", " ", "s", "a", "o">>,
      <<"c", "o", "i", " ", "t", "h", "uwr">>,
      <<"c", "o", "i", " ", "t", "h", "u">>
    }

advice_keywords ==
    {
      <<"t", "uw", " ", "v", "aas", "n">>,
      <<"t", "u", " ", "v", "a", "n">>,
      <<"x", "uwr", " ", "l", "ys">>,
      <<"x", "u", " ", "l", "y">>,
      <<"g", "i", "ar", "i", " ", "p", "h", "as", "p">>,
      <<"g", "i", "a", "i", " ", "p", "h", "a", "p">>,
      <<"k", "h", "u", "y", "ees", "n", " ", "n", "g", "h", "ij">>,
      <<"k", "h", "u", "y", "e", "n", " ", "n", "g", "h", "i">>,
      <<"n", "ee", "n", " ", "l", "af", "m">>,
      <<"n", "e", "n", " ", "l", "a", "m">>,
      <<"c", "ar", "i", " ", "t", "h", "i", "eej", "n">>,
      <<"c", "a", "i", " ", "t", "h", "i", "e", "n">>,
      <<"h", "uw", "ows", "n", "g", " ", "d", "aax", "n">>,
      <<"h", "u", "o", "n", "g", " ", "d", "a", "n">>,
      <<"k", "ees", " ", "h", "o", "aj", "c", "h">>,
      <<"k", "e", " ", "h", "o", "a", "c", "h">>,
      <<"l", "af", "m", " ", "s", "a", "o">>,
      <<"l", "a", "m", " ", "s", "a", "o">>,
      <<"c", "as", "c", "h">>,
      <<"c", "a", "c", "h">>,
      <<"p", "h", "ar", "i", " ", "l", "af", "m", " ", "g", "if">>,
      <<"p", "h", "a", "i", " ", "l", "a", "m", " ", "g", "i">>,
      <<"g", "i", "us", "p">>,
      <<"g", "i", "u", "p">>,
      <<"c", "uws", "u">>,
      <<"c", "u", "u">>
    }

symptom_keywords ==
    {
      <<"d", "aas", "u", " ", "h", "i", "eej", "u">>,
      <<"d", "a", "u", " ", "h", "i", "e", "u">>,
      <<"t", "r", "i", "eej", "u", " ", "c", "h", "uws", "n", "g">>,
      <<"t", "r", "i", "e", "u", " ", "c", "h", "u", "n", "g">>,
      <<"b", "ow", "i">>,
      <<"b", "o", "i">>,
      <<"b", "or", " ", "aw", "n">>,
      <<"b", "o", " ", "a", "n">>,
      <<"dd", "e", "n", " ", "m", "a", "n", "g">>,
      <<"d", "e", "n", " ", "m", "a", "n", "g">>,
      <<"dd", "uws", "t", " ", "r", "aa", "u">>,
      <<"d", "u", "t", " ", "r", "a", "u">>,
      <<"m", "eef", "m", " ", "v", "or">>,
      <<"m", "e", "m", " ", "v", "o">>,
      <<"dd", "or", " ", "t", "h", "aa", "n">>,
      <<"d", "o", " ", "t", "h", "a", "n">>,
      <<"l", "owf", " ", "dd", "owf">>,
      <<"l", "o", " ", "d", "o">>,
      <<"n", "oor", "i", " ", "dd", "aaf", "u">>,
      <<"n", "o", "i", " ", "d", "a", "u">>,
      <<"c", "h", "ees", "t">>,
      <<"c", "h", "e", "t">>,
      <<"dd", "oos", "m", " ", "t", "r", "aws", "n", "g">>,
      <<"d", "o", "m", " ", "t", "r", "a", "n", "g">>,
      <<"g", "a", "n", " ", "t", "uj", "y">>,
      <<"g", "a", "n", " ", "t", "u", "y">>,
      <<"p", "h", "aa", "n", " ", "t", "r", "aws", "n", "g">>,
      <<"p", "h", "a", "n", " ", "t", "r", "a", "n", "g">>,
      <<"r", "uj", "n", "g", " ", "r", "aa", "u">>,
      <<"r", "u", "n", "g", " ", "r", "a", "u">>,
      <<"r", "uj", "n", "g", " ", "dd", "u", "oo", "i">>,
      <<"r", "u", "n", "g", " ", "d", "u", "o", "i">>,
      <<"dd", "os", "n", "g", " ", "r", "o", "n", "g">>,
      <<"d", "o", "n", "g", " ", "r", "o", "n", "g">>,
      <<"dd", "os", "n", "g", " ", "n", "h", "ows", "t">>,
      <<"d", "o", "n", "g", " ", "n", "h", "o", "t">>
    }

meta_keys ==
    {
      <<"b", "aj", "n", " ", "l", "af", " ", "a", "i">>,
      <<"b", "a", "n", " ", "l", "a", " ", "a", "i">>,
      <<"g", "i", "ows", "i", " ", "t", "h", "i", "eej", "u">>,
      <<"g", "i", "o", "i", " ", "t", "h", "i", "e", "u">>,
      <<"h", "e", "l", "p">>,
      <<"g", "i", "us", "p", " ", "t", "oo", "i">>,
      <<"g", "i", "u", "p", " ", "t", "o", "i">>,
      <<"h", "uw", "ows", "n", "g", " ", "d", "aax", "n", " ", "d", "uf", "n", "g">>,
      <<"h", "u", "o", "n", "g", " ", "d", "a", "n", " ", "d", "u", "n", "g">>
    }

water_keys ==
    {"NHIET_DO", "PH", "DO", "NO2", "NH4", "DO_MAN", "DO_TRONG", "PO43", "NO3", "COD", "DO_KIEM"}

lower_table ==
    ("A" :> "a") @@ ("B" :> "b") @@ ("C" :> "c") @@ ("D" :> "d") @@ ("E" :> "e") @@ ("F" :> "f")
    @@ ("G" :> "g") @@ ("H" :> "h") @@ ("I" :> "i") @@ ("J" :> "j") @@ ("K" :> "k") @@ ("L" :> "l")
    @@ ("M" :> "m") @@ ("N" :> "n") @@ ("O" :> "o") @@ ("P" :> "p") @@ ("Q" :> "q") @@ ("R" :> "r")
    @@ ("S" :> "s") @@ ("T" :> "t") @@ ("U" :> "u") @@ ("V" :> "v") @@ ("W" :> "w") @@ ("X" :> "x")
    @@ ("Y" :> "y") @@ ("Z" :> "z") @@ ("Af" :> "af") @@ ("As" :> "as") @@ ("Ar" :> "ar") @@ ("Ax" :> "ax")
    @@ ("Aj" :> "aj") @@ ("AW" :> "aw") @@ ("AWf" :> "awf") @@ ("AWs" :> "aws") @@ ("AWr" :> "awr") @@ ("AWx" :> "awx")
    @@ ("AWj" :> "awj") @@ ("AA" :> "aa") @@ ("AAf" :> "aaf") @@ ("AAs" :> "aas") @@ ("AAr" :> "aar") @@ ("AAx" :> "aax")
    @@ ("AAj" :> "aaj") @@ ("Ef" :> "ef") @@ ("Es" :> "es") @@ ("Er" :> "er") @@ ("Ex" :> "ex") @@ ("Ej" :> "ej")
    @@ ("EE" :> "ee") @@ ("EEf" :> "eef") @@ ("EEs" :> "ees") @@ ("EEr" :> "eer") @@ ("EEx" :> "eex") @@ ("EEj" :> "eej")
    @@ ("If" :> "if") @@ ("Is" :> "is") @@ ("Ir" :> "ir") @@ ("Ix" :> "ix") @@ ("Ij" :> "ij") @@ ("Of" :> "of")
    @@ ("Os" :> "os") @@ ("Or" :> "or") @@ ("Ox" :> "ox") @@ ("Oj" :> "oj") @@ ("OO" :> "oo") @@ ("OOf" :> "oof")
    @@ ("OOs" :> "oos") @@ ("OOr" :> "oor") @@ ("OOx" :> "oox") @@ ("OOj" :> "ooj") @@ ("OW" :> "ow") @@ ("OWf" :> "owf")
    @@ ("OWs" :> "ows") @@ ("OWr" :> "owr") @@ ("OWx" :> "owx") @@ ("OWj" :> "owj") @@ ("Uf" :> "uf") @@ ("Us" :> "us")
    @@ ("Ur" :> "ur") @@ ("Ux" :> "ux") @@ ("Uj" :> "uj") @@ ("UW" :> "uw") @@ ("UWf" :> "uwf") @@ ("UWs" :> "uws")
    @@ ("UWr" :> "uwr") @@ ("UWx" :> "uwx") @@ ("UWj" :> "uwj") @@ ("Yf" :> "yf") @@ ("Ys" :> "ys") @@ ("Yr" :> "yr")
    @@ ("Yx" :> "yx") @@ ("Yj" :> "yj") @@ ("DD" :> "dd")

\* s or ""
or_empty(s) == IF s = PyNone THEN <<>> ELSE s

strip(s) ==
    LET keep == {i \in 1..Len(s) : s[i] \notin whitespace}
    IN  IF keep = {} THEN <<>>
        ELSE LET lo == CHOOSE i \in keep : \A j \in keep : i <= j
                 hi == CHOOSE i \in keep : \A j \in keep : j <= i
             IN  SubSeq(s, lo, hi)

lower(s) == [i \in 1..Len(s) |-> IF s[i] \in DOMAIN lower_table THEN lower_table[s[i]] ELSE s[i]]

startswith(t, p) == Len(p) <= Len(t) /\ SubSeq(t, 1, Len(p)) = p

\* k in t
contains(k, t) == \E i \in 1..(Len(t) - Len(k) + 1) : SubSeq(t, i, i + Len(k) - 1) = k

_norm_text(s) == lower(strip(or_empty(s)))

\* the upper-case character of each lower-case one
upper_table ==
    [c \in {lower_table[k] : k \in DOMAIN lower_table} |->
        CHOOSE k \in DOMAIN lower_table : lower_table[k] = c]

\* str.upper
upper(s) == [i \in 1..Len(s) |-> IF s[i] \in DOMAIN upper_table THEN upper_table[s[i]] ELSE s[i]]

\* s.split(sep), sep one character: the pieces between the separators
RECURSIVE split(_, _)
split(s, sep) ==
    IF \A i \in 1..Len(s) : s[i] # sep THEN <<s>>
    ELSE LET n == CHOOSE i \in 1..Len(s) : s[i] = sep /\ \A j \in 1..(i - 1) : s[j] # sep
         IN  <<SubSeq(s, 1, n - 1)>> \o split(SubSeq(s, n + 1, Len(s)), sep)

(***************************************************************************)
(* Rule classifier                                                         *)
(***************************************************************************)
\* _is_greeting with startswith(p) in place of startswith(p + " ")
_is_greeting_no_boundary(s) ==
    LET t == _norm_text(s)
    IN  \E p \in greeting_prefixes : t = p \/ startswith(t, p)

_is_greeting(s) ==
    LET t == _norm_text(s)
    IN  \E p \in greeting_prefixes : t = p \/ startswith(t, p \o <<" ">>)

_is_analysis_only(s) ==
    LET t == _norm_text(s)
    IN  \E k \in analysis_keywords : contains(k, t)

\* _is_advice with "giúp" / "giup" left out of the keyword list
_is_advice_without_giup(s) ==
    LET t == _norm_text(s)
    IN  \E k \in advice_keywords \ {<<"g", "i", "us", "p">>, <<"g", "i", "u", "p">>} : contains(k, t)

_is_advice(s) ==
    LET t == _norm_text(s)
    IN  \E k \in advice_keywords : contains(k, t)

_is_symptom_question(s) ==
    LET t == _norm_text(s)
    IN  /\ contains(<<"t", "oo", "m">>, t) \/ contains(<<"t", "o", "m">>, t)
        /\ \E k \in symptom_keywords : contains(k, t)

_is_smalltalk_or_meta(s) ==
    LET t == _norm_text(s)
    IN  \E k \in meta_keys : contains(k, t)

\* _rule_intent with the symptom rule tried before the greeting rule
_rule_intent_symptom_first(s) ==
    LET t == _norm_text(s)
        a == _is_analysis_only(t)
        b == _is_advice(t)
    IN  IF t = <<>> THEN "unknown"
        ELSE IF _is_symptom_question(t) THEN "symptom"
        ELSE IF _is_greeting(t) THEN "greet"
        ELSE IF _is_smalltalk_or_meta(t) THEN "meta"
        ELSE IF a /\ ~b THEN "analysis"
        ELSE IF b /\ ~a THEN "advice"
        ELSE IF a /\ b THEN "ambiguous"
        ELSE "unknown"

_rule_intent(s) ==
    LET t == _norm_text(s)
        a == _is_analysis_only(t)
        b == _is_advice(t)
    IN  IF t = <<>> THEN "unknown"
        ELSE IF _is_greeting(t) THEN "greet"
        ELSE IF _is_symptom_question(t) THEN "symptom"
        ELSE IF _is_smalltalk_or_meta(t) THEN "meta"
        ELSE IF a /\ ~b THEN "analysis"
        ELSE IF b /\ ~a THEN "advice"
        ELSE IF a /\ b THEN "ambiguous"
        ELSE "unknown"

(***************************************************************************)
(* Questions                                                               *)
(***************************************************************************)
\* word fragments a question is concatenated from
frags ==
    {
      <<"s", "t", "o", "r", "y">>,
      <<" ">>,
      <<"t", "oo", "m">>,
      <<"T", "o", "m">>,
      <<"b", "or", " ", "aw", "n">>,
      <<"p", "h", "aa", "n", " ", "t", "is", "c", "h">>,
      <<"g", "i", "us", "p">>,
      <<" ", "t", "oo", "i">>
    }

\* what a question starts with: nothing, a greeting phrase, or one in upper
\* case or after white space
leads ==
    {<<>>} \cup greeting_prefixes
    \cup {<<"\t", "H", "e", "l", "l", "o">>, <<"X", "I", "N", " ", "C", "H", "Af", "O">>}

\* "phân tích giúp em", "tôm tôi bị đen mang, bỏ ăn"
example_questions ==
    {
      <<"p", "h", "aa", "n", " ", "t", "is", "c", "h", " ", "g", "i", "us", "p", " ", "e", "m">>,
      <<"t", "oo", "m", " ", "t", "oo", "i", " ", "b", "ij", " ", "dd", "e", "n", " ", "m", "a", "n", "g", ",",
        " ", "b", "or", " ", "aw", "n">>
    }

RECURSIVE concat_upto(_, _)
concat_upto(fs, n) ==
    IF n = 0 THEN {<<>>}
    ELSE LET shorter == concat_upto(fs, n - 1)
         IN  shorter \cup {b \o f : b \in shorter, f \in fs}

Questions == {l \o b : l \in leads, b \in concat_upto(frags, MaxFrags)} \cup example_questions

(***************************************************************************)
(* PredictionPipeline.predict: the result built from the four outputs      *)
(***************************************************************************)
Labels == -1..MaxLabel

\* "Không xác định"
undetermined == <<"K", "h", "oo", "n", "g", " ", "x", "as", "c", " ", "dd", "ij", "n", "h">>

\* {0: "An toàn", 1: "Nguy cơ"}
risk_map == (0 :> <<"A", "n", " ", "t", "o", "af", "n">>) @@ (1 :> <<"N", "g", "u", "y", " ", "c", "ow">>)

\* {0: "Môi trường không đạt", 1: "Môi trường đạt"}
env_map ==
    (0 :> <<"M", "oo", "i", " ", "t", "r", "uw", "owf", "n", "g", " ", "k", "h", "oo", "n", "g", " ", "dd", "aj", "t">>)
    @@ (1 :> <<"M", "oo", "i", " ", "t", "r", "uw", "owf", "n", "g", " ", "dd", "aj", "t">>)

\* {0: "Điều kiện tảo kém", 1: "Điều kiện tảo tốt"}
algae_map ==
    (0 :> <<"DD", "i", "eef", "u", " ", "k", "i", "eej", "n", " ", "t", "ar", "o", " ", "k", "es", "m">>)
    @@ (1 :> <<"DD", "i", "eef", "u", " ", "k", "i", "eej", "n", " ", "t", "ar", "o", " ", "t", "oos", "t">>)

\* {}
EmptyDict == <<>>

\* d.get(k): the default left out, None for a missing key
dict_get_no_default(d, k, default) == IF k \in DOMAIN d THEN d[k] ELSE PyNone

\* d.get(k, default)
dict_get(d, k, default) == IF k \in DOMAIN d THEN d[k] ELSE default

\* float(y2[0]) of the regressor, in ten-thousandths: 5.0000 .. 5.0010
y2_values == 50000..50010

\* round(y2_val, 3) in thousandths, as Python rounds the double nearest to
\* each value of y2_values (5.0005 is stored below the tie and goes down)
round3 ==
    (50000 :> 5000) @@ (50001 :> 5000) @@ (50002 :> 5000) @@ (50003 :> 5000)
    @@ (50004 :> 5000) @@ (50005 :> 5000) @@ (50006 :> 5001)
    @@ (50007 :> 5001) @@ (50008 :> 5001) @@ (50009 :> 5001)
    @@ (50010 :> 5001)

\* np.round(np.exp(v), 2) in hundredths, evaluated in double precision
exp_round2 ==
    (50000 :> 14841) @@ (50001 :> 14843) @@ (50002 :> 14844)
    @@ (50003 :> 14846) @@ (50004 :> 14847) @@ (50005 :> 14849)
    @@ (50006 :> 14850) @@ (50007 :> 14852) @@ (50008 :> 14853)
    @@ (50009 :> 14855) @@ (50010 :> 14856)

\* The result dict (lines 63-75); y1, y3, y4 are int(y[0]) of the three
\* classifiers, y2 is float(y2[0]) of the regressor.
predict(y1, y2, y3, y4) ==
    [ task1_label |-> y1,
      task1_text  |-> dict_get(risk_map, y1, undetermined),
      task2_vibrio_log |-> round3[y2],
      task2_vibrio_est |-> exp_round2[y2],
      task3_label |-> y3,
      task3_text  |-> dict_get(env_map, y3, undetermined),
      task4_label |-> y4,
      task4_text  |-> dict_get(algae_map, y4, undetermined) ]

(***************************************************************************)
(* Water sample records                                                    *)
(***************************************************************************)
V_None == [type |-> "NoneType", v |-> ""]

V_str(s) == [type |-> "str", v |-> s]

V_float(s) == [type |-> "float", v |-> s]

V_int(s) == [type |-> "int", v |-> s]

\* line 15 with a truth test of the value in place of the membership test
_has_any_water_data_truthy(w) ==
    \E k \in water_keys :
        k \in DOMAIN w /\ dict_get(w, k, V_None) \notin
                              {V_None, V_str(""), V_str("None"), V_float("0.0"), V_int("0")}

_has_any_water_data(w) ==
    \E k \in water_keys :
        k \in DOMAIN w /\ dict_get(w, k, V_None) \notin {V_None, V_str(""), V_str("None")}

\* a record holding the identifier fields only
sample_ids ==
    [ DIEM_QUAN_TRAC |-> V_str("DD1"), XA |-> V_str("Tan Duyet"), HUYEN |-> V_str("Dam Doi") ]

\* identifier fields plus chemistry fields that hold no value
sample_blank ==
    sample_ids @@ [ PH |-> V_str("None"), DO |-> V_None, NO2 |-> V_str("") ]

\* input_df.to_dict(orient="records")[0] of a submitted form
sample_full ==
    sample_ids @@
    [ NHIET_DO |-> V_float("29.5"), PH |-> V_float("7.8"), DO |-> V_float("2.0"),
      DO_MAN |-> V_float("15.0"), DO_TRONG |-> V_float("35.0"), DO_KIEM |-> V_float("120.0"),
      NO2 |-> V_float("0.0"), NO3 |-> V_float("0.5"), NH4 |-> V_float("0.1"),
      PO43 |-> V_float("0.05"), COD |-> V_float("6.0"),
      NAM |-> V_int("2024"), THANG |-> V_int("5"), NGAY |-> V_int("17") ]

\* water_data arguments of answer(), after `water_data or {}`
AgentSamples == {EmptyDict, sample_blank, sample_full}

\* records whose only chemistry value is a zero, and a record with a reading
\* that is not one of the chemistry fields
sample_zero == sample_ids @@ [ NO2 |-> V_float("0.0") ]

sample_int_zero == sample_ids @@ [ NGAY |-> V_int("17"), DO_MAN |-> V_int("0") ]

sample_other == sample_ids @@ [ H2S |-> V_float("0.02"), NGAY |-> V_int("17") ]

WaterSamples == AgentSamples \cup {sample_ids, sample_zero, sample_int_zero, sample_other}

\* prediction arguments of answer(), after `prediction or {}`
AgentPredictions == {EmptyDict, predict(0, 50004, 1, 1), predict(1, 50004, 0, 0)}

\* fragments of the questions handed to answer()
agent_frags ==
    {
      <<" ">>,
      <<"h", "i">>,
      <<"t", "oo", "m", " ", "b", "or", " ", "aw", "n">>,
      <<"p", "h", "aa", "n", " ", "t", "is", "c", "h">>,
      <<"g", "i", "us", "p">>,
      <<" ", "t", "oo", "i">>
    }

AgentQuestions == concat_upto(agent_frags, MaxAgentFrags) \cup example_questions

(***************************************************************************)
(* Fact summary block                                                      *)
(***************************************************************************)
\* _risk_to_priority with `and` in place of `or`
_risk_to_priority_and(pred) ==
    LET t1 == _norm_text(dict_get(pred, "task1_text", <<>>))
        t3 == _norm_text(dict_get(pred, "task3_text", <<>>))
    IN  IF /\ contains(<<"n", "g", "u", "y">>, t1)
           /\ contains(<<"k", "h", "oo", "n", "g", " ", "dd", "aj", "t">>, t3)
        THEN "P1" ELSE "P2"

_risk_to_priority(pred) ==
    LET t1 == _norm_text(dict_get(pred, "task1_text", <<>>))
        t3 == _norm_text(dict_get(pred, "task3_text", <<>>))
    IN  IF \/ contains(<<"n", "g", "u", "y">>, t1)
           \/ contains(<<"k", "h", "oo", "n", "g", " ", "dd", "aj", "t">>, t3)
        THEN "P1" ELSE "P2"

\* "Không có"
not_available == <<"K", "h", "oo", "n", "g", " ", "c", "os">>

\* the values the rendered block shows, line by line
_render_compact(w, pred) ==
    [ point    |-> dict_get(w, "DIEM_QUAN_TRAC", V_None),
      xa       |-> dict_get(w, "XA", V_None),
      huyen    |-> dict_get(w, "HUYEN", V_None),
      nhiet_do |-> dict_get(w, "NHIET_DO", V_None),
      ph       |-> dict_get(w, "PH", V_None),
      do       |-> dict_get(w, "DO", V_None),
      do_man   |-> dict_get(w, "DO_MAN", V_None),
      do_trong |-> dict_get(w, "DO_TRONG", V_None),
      do_kiem  |-> dict_get(w, "DO_KIEM", V_None),
      no2      |-> dict_get(w, "NO2", V_None),
      no3      |-> dict_get(w, "NO3", V_None),
      nh4      |-> dict_get(w, "NH4", V_None),
      po43     |-> dict_get(w, "PO43", V_None),
      cod      |-> dict_get(w, "COD", V_None),
      vib_text   |-> dict_get(pred, "task1_text", not_available),
      vib_est    |-> dict_get(pred, "task2_vibrio_est", not_available),
      env_text   |-> dict_get(pred, "task3_text", not_available),
      algae_text |-> dict_get(pred, "task4_text", not_available),
      priority   |-> _risk_to_priority(pred) ]

(***************************************************************************)
(* Localization                                                            *)
(***************************************************************************)
\* str.replace(old, new, 1): the first occurrence only
replace_first(s, old, new) ==
    LET hits == {n \in 1..Len(s) : startswith(SubSeq(s, n, Len(s)), old)}
    IN  IF hits = {} THEN s
        ELSE LET n == CHOOSE h \in hits : \A g \in hits : h <= g
             IN  SubSeq(s, 1, n - 1) \o new \o SubSeq(s, n + Len(old), Len(s))

\* str.replace(old, new): every occurrence, left to right, without overlap
RECURSIVE replace(_, _, _)
replace(s, old, new) ==
    IF Len(s) < Len(old) THEN s
    ELSE IF startswith(s, old) THEN new \o replace(SubSeq(s, Len(old) + 1, Len(s)), old, new)
    ELSE <<Head(s)>> \o replace(Tail(s), old, new)

\* the characters \w matches: letters, digits and the underscore
word_chars ==
    DOMAIN lower_table \cup {lower_table[c] : c \in DOMAIN lower_table}
    \cup {"0", "1", "2", "3", "4", "5", "6", "7", "8", "9", "_"}

\* no \b in the pattern: any gap will do
word_boundary_anywhere(s, n) == TRUE

\* \b at the gap before position n of s
word_boundary(s, n) ==
    LET before == n > 1 /\ s[n - 1] \in word_chars
        after == n <= Len(s) /\ s[n] \in word_chars
    IN  before # after

\* \bword\b matches at position n of s, ignoring case
matches_word(s, n, word) ==
    /\ n + Len(word) - 1 <= Len(s)
    /\ lower(SubSeq(s, n, n + Len(word) - 1)) = word
    /\ word_boundary(s, n)
    /\ word_boundary(s, n + Len(word))

\* re.sub(r"\bword\b", new, s, flags=re.IGNORECASE), from position n on
RECURSIVE sub_from(_, _, _, _)
sub_from(s, n, word, new) ==
    IF n > Len(s) THEN <<>>
    ELSE IF matches_word(s, n, word) THEN new \o sub_from(s, n + Len(word), word, new)
    ELSE <<s[n]>> \o sub_from(s, n + 1, word, new)

re_sub_word(word, new, s) == sub_from(s, 1, word, new)

_localize_text(s) ==
    IF s = <<>> THEN <<>>
    ELSE LET t1 == replace(replace(s, <<"B", "aj", "n">>, <<"M", "if", "n", "h">>),
                           <<"b", "aj", "n">>, <<"m", "if", "n", "h">>)
             t2 == replace(replace(t1, <<"T", "oo", "i">>, <<"E", "m">>),
                           <<"t", "oo", "i">>, <<"e", "m">>)
             t3 == re_sub_word(<<"k", "h", "oo", "n", "g">>, <<"h", "oo", "n", "g">>, t2)
             t4 == re_sub_word(<<"n", "h", "a", "n", "h">>, <<"l", "ej">>, t3)
             t5 == re_sub_word(<<"n", "g", "h", "i", "ee", "m", " ", "t", "r", "oj", "n", "g">>,
                               <<"c", "aw", "n", "g">>, t4)
         IN  strip(t5)

(***************************************************************************)
(* ShrimpAgent._llm_intent                                                 *)
(***************************************************************************)
allowed == {"greet", "analysis", "advice", "symptom", "knowledge", "meta"}

\* the spelling of each allowed label
label_chars ==
    [ greet     |-> <<"g", "r", "e", "e", "t">>,
      analysis  |-> <<"a", "n", "a", "l", "y", "s", "i", "s">>,
      advice    |-> <<"a", "d", "v", "i", "c", "e">>,
      symptom   |-> <<"s", "y", "m", "p", "t", "o", "m">>,
      knowledge |-> <<"k", "n", "o", "w", "l", "e", "d", "g", "e">>,
      meta      |-> <<"m", "e", "t", "a">> ]

\* A response of the classification call, by what json.loads makes of its
\* content: content is "None" or "str"; json is "invalid" (not JSON, also the
\* empty string), "object", or "other" (a JSON array, string or number);
\* an object's "intent" member is absent, null, a str, or a number that is
\* falsy (0) or truthy.
IntentValue(type, s) == [type |-> type, s |-> s]

IntentResponse(content, json, intent) == [content |-> content, json |-> json, intent |-> intent]

NoIntent == IntentValue("absent", <<>>)

intent_strings ==
    { <<"g", "r", "e", "e", "t">>,
      <<"a", "n", "a", "l", "y", "s", "i", "s">>,
      <<" ", "A", "d", "v", "i", "c", "e", " ">>,
      <<"s", "y", "m", "p", "t", "o", "m">>,
      <<"k", "n", "o", "w", "l", "e", "d", "g", "e">>,
      <<"m", "e", "t", "a">>,
      <<"u", "n", "k", "n", "o", "w", "n">>,
      <<"a", "m", "b", "i", "g", "u", "o", "u", "s">>,
      <<"c", "h", "i", "t", "c", "h", "a", "t">>,
      <<>> }

IntentResponses ==
    { IntentResponse("None", "invalid", NoIntent),
      IntentResponse("str", "invalid", NoIntent),
      IntentResponse("str", "other", NoIntent),
      IntentResponse("str", "object", NoIntent),
      IntentResponse("str", "object", IntentValue("null", <<>>)),
      IntentResponse("str", "object", IntentValue("falsy", <<>>)),
      IntentResponse("str", "object", IntentValue("truthy", <<>>)) }
    \cup {IntentResponse("str", "object", IntentValue("str", s)) : s \in intent_strings}

NoResponse == IntentResponse("", "", NoIntent)

\* _llm_intent that hands on whatever label the response carries, its own
\* "unknown" and "ambiguous" included
_llm_intent_unchecked(resp) ==
    IF resp.content = "None" \/ resp.json = "invalid" THEN "knowledge"
    ELSE IF resp.json # "object" THEN "knowledge"
    ELSE IF resp.intent.type = "truthy" THEN "knowledge"
    ELSE LET v == IF resp.intent.type = "str" THEN resp.intent.s ELSE <<>>
             n == _norm_text(v)
         IN  IF \E l \in allowed : label_chars[l] = n
             THEN CHOOSE l \in allowed : label_chars[l] = n
             ELSE IF n = <<"a", "m", "b", "i", "g", "u", "o", "u", "s">> THEN "ambiguous"
             ELSE "unknown"

\* lines 151-158: the label parsed out of a response the call returned
_llm_intent(resp) ==
    IF resp.content = "None" \/ resp.json = "invalid" THEN "knowledge"  \* json.loads raises
    ELSE IF resp.json # "object" THEN "knowledge"                        \* j.get raises
    ELSE IF resp.intent.type = "truthy" THEN "knowledge"                 \* (5 or "").strip() raises
    ELSE LET v == IF resp.intent.type = "str" THEN resp.intent.s ELSE <<>>
             n == _norm_text(v)
         IN  IF \E l \in allowed : label_chars[l] = n
             THEN CHOOSE l \in allowed : label_chars[l] = n
             ELSE "knowledge"

(***************************************************************************)
(* answer(): the state between calls                                       *)
(***************************************************************************)
NoPrompt == [kind |-> "none", question |-> <<>>, compact |-> <<>>, rag |-> <<>>]

NoRet == [kind |-> "none", src |-> "", text |-> ""]

\* an outbound call not made yet
NotCalled == [kind |-> "none", value |-> <<>>]

AgentIdle ==
    /\ pc = "idle"
    /\ question = <<>>
    /\ water_data = EmptyDict
    /\ prediction = EmptyDict
    /\ has_data = FALSE
    /\ has_pred = FALSE
    /\ rule_it = ""
    /\ it = ""
    /\ llm_out = NoResponse
    /\ rag_resp = NotCalled
    /\ reply_resp = NotCalled
    /\ calls = <<>>
    /\ prompt = NoPrompt
    /\ ret = NoRet

(***************************************************************************)
(* ShrimpAgent.answer                                                      *)
(***************************************************************************)
greet_replies ==
    { "Da chao minh. Minh muon em **phan tich nuoc**, **tu van xu ly**, hay **hoi dau hieu tom** ne?",
      "Chao ba con. Minh hoi em kieu nao: **phan tich**, **tu van**, hay **dau hieu tom** nghen?" }

meta_replies ==
    { "Da em ho tro 3 kieu: **phan tich nuoc** (khong giai phap), **tu van xu ly**, va **hoi dau hieu tom bat thuong**. Minh cu hoi tu nhien nghen.",
      "Minh cu nhap so nuoc roi bam **Du doan** de em coi theo mo hinh. Con hoi dau hieu tom/benh thi hoi truc tiep cung duoc." }

analysis_first ==
    "Da muon **phan tich nuoc** thi minh nhap so lieu roi bam **Du doan** truoc nghen, de em coi dung theo ao minh."

advice_first ==
    "Da muon **tu van xu ly theo ao** thi minh nhap so lieu roi bam **Du doan** truoc nghen. Con neu hoi **kien thuc chung** thi minh hoi luon cung duoc."

\* random.choice([a for a in arr if a])
_pick(arr) == {a \in arr : a # ""}

Returned(src, t) == [kind |-> "return", src |-> src, text |-> t]

Raised(src) == [kind |-> "raise", src |-> src, text |-> ""]

\* "(không có)"
no_snippet == <<"(", "k", "h", "oo", "n", "g", " ", "c", "os", ")">>

Prompt(kind, q, compact, rag) == [kind |-> kind, question |-> q, compact |-> compact, rag |-> rag]

\* line 182 with `and` in place of `or`
needs_reading_both(i, hd, hp) == i \in {"analysis", "advice"} /\ (~hd /\ ~hp)

\* line 182 without the analysis / advice test
needs_reading_any_intent(i, hd, hp) == ~hd \/ ~hp

\* line 182: an analysis or advice request that lacks a reading
needs_reading(i, hd, hp) == i \in {"analysis", "advice"} /\ (~hd \/ ~hp)

\* lines 183-185 with one message for both intents
refusal_same(i) == advice_first

\* lines 183-185
refusal(i) == IF i = "analysis" THEN analysis_first ELSE advice_first

\* lines 170-180 left out: greet and meta fall through to the last branch
compose_without_canned(i, q, w, p, hd, hp, cs) ==
    IF needs_reading(i, hd, hp) THEN
        /\ ret' = Returned("fixed", refusal(i))
        /\ pc' = "done" /\ calls' = cs /\ prompt' = NoPrompt
    ELSE IF i = "symptom" THEN
        /\ prompt' = Prompt("symptom", q, <<>>, <<>>)
        /\ pc' = "llm_reply" /\ calls' = Append(cs, "llm_reply") /\ ret' = NoRet
    ELSE IF i = "analysis" THEN
        /\ prompt' = Prompt("analysis", q, _render_compact(w, p), <<>>)
        /\ pc' = "llm_reply" /\ calls' = Append(cs, "llm_reply") /\ ret' = NoRet
    ELSE IF i = "advice" THEN
        IF qa_chain # "None" THEN
            /\ prompt' = NoPrompt
            /\ pc' = "retrieval" /\ calls' = Append(cs, "retrieval") /\ ret' = NoRet
        ELSE
            /\ prompt' = Prompt("advice", q, _render_compact(w, p), no_snippet)
            /\ pc' = "llm_reply" /\ calls' = Append(cs, "llm_reply") /\ ret' = NoRet
    ELSE
        /\ prompt' = Prompt("knowledge", q, <<>>, <<>>)
        /\ pc' = "llm_reply" /\ calls' = Append(cs, "llm_reply") /\ ret' = NoRet

\* Lines 170-312 up to the first outbound call or return, for intent i and
\* the calls cs made so far.
compose(i, q, w, p, hd, hp, cs) ==
    IF i = "greet" THEN
        /\ \E m \in _pick(greet_replies) : ret' = Returned("pick", m)
        /\ pc' = "done" /\ calls' = cs /\ prompt' = NoPrompt
    ELSE IF i = "meta" THEN
        /\ \E m \in _pick(meta_replies) : ret' = Returned("pick", m)
        /\ pc' = "done" /\ calls' = cs /\ prompt' = NoPrompt
    ELSE IF needs_reading(i, hd, hp) THEN
        /\ ret' = Returned("fixed", refusal(i))
        /\ pc' = "done" /\ calls' = cs /\ prompt' = NoPrompt
    ELSE IF i = "symptom" THEN
        /\ prompt' = Prompt("symptom", q, <<>>, <<>>)
        /\ pc' = "llm_reply" /\ calls' = Append(cs, "llm_reply") /\ ret' = NoRet
    ELSE IF i = "analysis" THEN
        /\ prompt' = Prompt("analysis", q, _render_compact(w, p), <<>>)
        /\ pc' = "llm_reply" /\ calls' = Append(cs, "llm_reply") /\ ret' = NoRet
    ELSE IF i = "advice" THEN
        IF qa_chain # "None" THEN
            /\ prompt' = NoPrompt
            /\ pc' = "retrieval" /\ calls' = Append(cs, "retrieval") /\ ret' = NoRet
        ELSE
            /\ prompt' = Prompt("advice", q, _render_compact(w, p), no_snippet)
            /\ pc' = "llm_reply" /\ calls' = Append(cs, "llm_reply") /\ ret' = NoRet
    ELSE
        /\ prompt' = Prompt("knowledge", q, <<>>, <<>>)
        /\ pc' = "llm_reply" /\ calls' = Append(cs, "llm_reply") /\ ret' = NoRet

\* answer(question, water_data, prediction) is called: lines 161-168, and on
\* when the rules decide the intent
AnswerCall(q, w, p) ==
    /\ pc = "idle"
    /\ question' = q
    /\ water_data' = w
    /\ prediction' = p
    /\ has_data' = _has_any_water_data(w)
    /\ has_pred' = (p # EmptyDict)
    /\ rule_it' = _rule_intent(q)
    /\ llm_out' = NoResponse
    /\ rag_resp' = NotCalled
    /\ reply_resp' = NotCalled
    /\ IF rule_it' \in {"unknown", "ambiguous"}
       THEN /\ it' = rule_it'
            /\ pc' = "llm_intent"
            /\ calls' = <<"llm_intent">>
            /\ prompt' = NoPrompt
            /\ ret' = NoRet
       ELSE /\ it' = rule_it'
            /\ compose(rule_it', q, w, p, has_data', has_pred', <<>>)
    /\ UNCHANGED <<qa_chain, last_refusal, intent_vars, predict_vars, localize_vars, chat_vars, boot, officer_vars>>

\* the classification call returns resp (line 150) and answer goes on
LlmIntentReturn(resp) ==
    /\ pc = "llm_intent"
    /\ llm_out' = resp
    /\ it' = _llm_intent(resp)
    /\ compose(it', question, water_data, prediction, has_data, has_pred, calls)
    /\ UNCHANGED <<question, water_data, prediction, has_data, has_pred, rule_it, qa_chain, rag_resp, reply_resp, last_refusal, intent_vars, predict_vars, localize_vars, chat_vars, boot, officer_vars>>

\* the classification call raises (line 150 is outside the try)
LlmIntentRaise ==
    /\ pc = "llm_intent"
    /\ ret' = Raised("llm_intent")
    /\ pc' = "done"
    /\ UNCHANGED <<question, water_data, prediction, has_data, has_pred, rule_it, it, llm_out,
                   qa_chain, rag_resp, reply_resp, calls, prompt, last_refusal, intent_vars, predict_vars, localize_vars, chat_vars, boot, officer_vars>>

\* what qa_chain.invoke returns under "result": absent, None, or a str
rag_results ==
    { PyNone, <<>>, <<" ", "\n">>,
      <<"S", "uj", "c", " ", "k", "h", "is", " ", "k", "h", "i", " ", "D", "O", " ", "t", "h", "aas", "p", ".", "\n">> }

\* lines 257-258 and on to the reply call
RetrievalReturn(res) ==
    /\ pc = "retrieval"
    /\ LET rag_snippet == strip(or_empty(res))
       IN  prompt' = Prompt("advice", question, _render_compact(water_data, prediction),
                            IF rag_snippet # <<>> THEN rag_snippet ELSE no_snippet)
    /\ pc' = "llm_reply"
    /\ calls' = Append(calls, "llm_reply")
    /\ rag_resp' = [kind |-> "return", value |-> res]
    /\ UNCHANGED <<question, water_data, prediction, has_data, has_pred, rule_it, it, llm_out,
                   qa_chain, reply_resp, ret, last_refusal, intent_vars, predict_vars, localize_vars, chat_vars, boot, officer_vars>>

\* lines 259-260 with the failure of the query raised again
RetrievalRaise_propagates ==
    /\ pc = "retrieval"
    /\ ret' = Raised("retrieval")
    /\ pc' = "done"
    /\ rag_resp' = [kind |-> "raise", value |-> <<>>]
    /\ UNCHANGED <<question, water_data, prediction, has_data, has_pred, rule_it, it, llm_out,
                   qa_chain, reply_resp, calls, prompt, last_refusal, intent_vars, predict_vars, localize_vars, chat_vars, boot, officer_vars>>

\* lines 259-260 with the query tried again after a failure
RetrievalRaise_retry ==
    /\ pc = "retrieval"
    /\ Len(calls) < 4
    /\ calls' = Append(calls, "retrieval")
    /\ UNCHANGED <<pc, question, water_data, prediction, has_data, has_pred, rule_it, it, llm_out,
                   qa_chain, rag_resp, reply_resp, prompt, ret, last_refusal, intent_vars, predict_vars, localize_vars, chat_vars, boot, officer_vars>>

\* lines 259-260 and on to the reply call
RetrievalRaise ==
    /\ pc = "retrieval"
    /\ prompt' = Prompt("advice", question, _render_compact(water_data, prediction), no_snippet)
    /\ pc' = "llm_reply"
    /\ calls' = Append(calls, "llm_reply")
    /\ rag_resp' = [kind |-> "raise", value |-> <<>>]
    /\ UNCHANGED <<question, water_data, prediction, has_data, has_pred, rule_it, it, llm_out,
                   qa_chain, reply_resp, ret, last_refusal, intent_vars, predict_vars, localize_vars, chat_vars, boot, officer_vars>>

\* resp.content of the reply call: None, or a str such as
\* "Bạn không nên thay nước nhanh. "
reply_contents ==
    { PyNone,
      <<"B", "aj", "n", " ", "k", "h", "oo", "n", "g", " ", "n", "ee", "n", " ", "t", "h", "a", "y", " ",
        "n", "uw", "ows", "c", " ", "n", "h", "a", "n", "h", ".", " ">> }

\* the reply call returns: lines 217, 249, 296, 312
ReplyReturn(content) ==
    /\ pc = "llm_reply"
    /\ ret' = Returned("llm", _localize_text(strip(or_empty(content))))
    /\ pc' = "done"
    /\ reply_resp' = [kind |-> "return", value |-> content]
    /\ UNCHANGED <<question, water_data, prediction, has_data, has_pred, rule_it, it, llm_out,
                   qa_chain, rag_resp, calls, prompt, last_refusal, intent_vars, predict_vars, localize_vars, chat_vars, boot, officer_vars>>

\* the reply call raises and answer returns a fixed message in its place
ReplyRaise_fallback ==
    /\ pc = "llm_reply"
    /\ ret' = Returned("fixed", advice_first)
    /\ pc' = "done"
    /\ reply_resp' = [kind |-> "raise", value |-> <<>>]
    /\ UNCHANGED <<question, water_data, prediction, has_data, has_pred, rule_it, it, llm_out,
                   qa_chain, rag_resp, calls, prompt, last_refusal, intent_vars, predict_vars, localize_vars, chat_vars, boot, officer_vars>>

\* the reply call raises, and so does answer
ReplyRaise ==
    /\ pc = "llm_reply"
    /\ ret' = Raised("llm_reply")
    /\ pc' = "done"
    /\ reply_resp' = [kind |-> "raise", value |-> <<>>]
    /\ UNCHANGED <<question, water_data, prediction, has_data, has_pred, rule_it, it, llm_out,
                   qa_chain, rag_resp, calls, prompt, last_refusal, intent_vars, predict_vars, localize_vars, chat_vars, boot, officer_vars>>

\* answer() has returned or raised and the next call starts afresh: the agent
\* keeps nothing of a call
ForgetCall ==
    /\ pc = "done"
    /\ pc' = "idle"
    /\ question' = <<>>
    /\ water_data' = EmptyDict
    /\ prediction' = EmptyDict
    /\ has_data' = FALSE
    /\ has_pred' = FALSE
    /\ rule_it' = ""
    /\ it' = ""
    /\ llm_out' = NoResponse
    /\ rag_resp' = NotCalled
    /\ reply_resp' = NotCalled
    /\ calls' = <<>>
    /\ prompt' = NoPrompt
    /\ ret' = NoRet
    /\ UNCHANGED <<qa_chain, intent_vars, predict_vars, localize_vars, chat_vars, boot, officer_vars>>

AnswerDone == ForgetCall /\ UNCHANGED last_refusal

NoRefusal == [it |-> "", missing |-> "", text |-> ""]

\* which of the two inputs the current call lacks
missing_now ==
    IF ~has_data /\ ~has_pred THEN "both"
    ELSE IF ~has_data THEN "data"
    ELSE IF ~has_pred THEN "prediction"
    ELSE "nothing"

\* As AnswerDone, and the caller notes the reply when it is a refusal of a call
\* that lacked exactly one of the two inputs (to compare it with the next one).
AnswerDoneNoted ==
    /\ ForgetCall
    /\ last_refusal' =
         IF ret.kind = "return" /\ ret.src = "fixed" /\ missing_now \in {"data", "prediction"}
         THEN [it |-> it, missing |-> missing_now, text |-> ret.text]
         ELSE last_refusal

IntentIdle == text = <<>> /\ label = NoLabel

NoY == [y1 |-> 0, y2 |-> 50000, y3 |-> 0, y4 |-> 0]

NoError == <<>>

PredictIdle ==
    /\ y = NoY
    /\ result = EmptyDict
    /\ summary = <<>>
    /\ stage = "new"
    /\ error = NoError

LocalizeIdle == raw = <<>> /\ passes = <<>>

ChatIdle == session = EmptyDict /\ users = {} /\ tin_nhan_chat = <<>> /\ answered = FALSE

\* no user row, no notice, no request
OfficerIdle ==
    /\ accounts = <<>> /\ officer_env = <<>> /\ thong_bao = <<>>
    /\ da_doc_thong_bao = <<>> /\ reqs = <<>> /\ response = ""

\* app.py not imported yet: no vector database, no agent
BootIdle == boot = [api_key |-> "", rag |-> "unset", vectordb |-> "unset", agent |-> "none"]

Init ==
    /\ AgentIdle
    /\ qa_chain \in {"None", "chain"}
    /\ last_refusal = NoRefusal
    /\ IntentIdle
    /\ PredictIdle
    /\ LocalizeIdle
    /\ ChatIdle
    /\ BootIdle
    /\ OfficerIdle

AnswerSteps ==
    \/ \E q \in AgentQuestions, w \in AgentSamples, p \in AgentPredictions : AnswerCall(q, w, p)
    \/ \E resp \in IntentResponses : LlmIntentReturn(resp)
    \/ LlmIntentRaise
    \/ \E res \in rag_results : RetrievalReturn(res)
    \/ RetrievalRaise
    \/ \E content \in reply_contents : ReplyReturn(content)
    \/ ReplyRaise

Next == AnswerSteps \/ AnswerDone

Spec == Init /\ [][Next]_vars

(***************************************************************************)
(* SpecRefusal: answer() called again and again, the caller comparing the  *)
(* refusals it gets                                                        *)
(***************************************************************************)
\* an agent built without a knowledge base (lines 123, 129): no call of it
\* ever reaches retrieval
InitRefusal == Init /\ qa_chain = "None"

NextRefusal ==
    \/ \E q \in AgentQuestions, w \in AgentSamples, p \in AgentPredictions : AnswerCall(q, w, p)
    \/ \E r \in IntentResponses : LlmIntentReturn(r)
    \/ LlmIntentRaise
    \/ \E content \in reply_contents : ReplyReturn(content)
    \/ ReplyRaise
    \/ AnswerDoneNoted

SpecRefusal == InitRefusal /\ [][NextRefusal]_vars

(***************************************************************************)
(* SpecSample: answer() called with the records a caller may hold          *)
(***************************************************************************)
InitSample == Init /\ qa_chain = "None"

NextSample ==
    \/ \E q \in example_questions, w \in WaterSamples, p \in AgentPredictions : AnswerCall(q, w, p)
    \/ \E r \in IntentResponses : LlmIntentReturn(r)
    \/ LlmIntentRaise
    \/ \E content \in reply_contents : ReplyReturn(content)
    \/ ReplyRaise
    \/ AnswerDone

SpecSample == InitSample /\ [][NextSample]_vars

(***************************************************************************)
(* SpecIntent: _rule_intent as a pure function of the question             *)
(***************************************************************************)
InitIntent ==
    /\ text \in Questions
    /\ label = NoLabel
    /\ AgentIdle
    /\ qa_chain = "None"
    /\ last_refusal = NoRefusal
    /\ PredictIdle
    /\ LocalizeIdle
    /\ ChatIdle
    /\ BootIdle
    /\ OfficerIdle

RuleIntent ==
    /\ label = NoLabel
    /\ label' = _rule_intent(text)
    /\ UNCHANGED <<text, agent_vars, last_refusal, predict_vars, localize_vars, chat_vars, boot, officer_vars>>

NextIntent == RuleIntent

SpecIntent == InitIntent /\ [][NextIntent]_vars

(***************************************************************************)
(* SpecPredict: the pipeline is built, predict is called once on a sample, *)
(* and the agent renders the fact summary of what predict returned         *)
(***************************************************************************)
InitPredict ==
    /\ y \in [y1 : Labels, y2 : y2_values, y3 : Labels, y4 : Labels]
    /\ result = EmptyDict
    /\ summary = <<>>
    /\ stage = "new"
    /\ error = NoError
    /\ AgentIdle
    /\ qa_chain = "None"
    /\ last_refusal = NoRefusal
    /\ IntentIdle
    /\ LocalizeIdle
    /\ ChatIdle
    /\ BootIdle
    /\ OfficerIdle

\* what the callee raised into the try block
causes == {"FileNotFoundError", "ValueError"}

\* CustomException(e, sys): the domain error wrapping the cause e, naming the
\* stage that sys.exc_info() shows the cause was raised in
CustomException(e, at) == [type |-> "CustomException", cause |-> e, stage |-> at]

\* __init__: the five load_object calls return (lines 23-27)
LoadReturn ==
    /\ stage = "new" /\ error = NoError
    /\ stage' = "loaded"
    /\ UNCHANGED <<y, result, summary, error, agent_vars, last_refusal, intent_vars, localize_vars, chat_vars, boot, officer_vars>>

\* __init__: a load_object call raises (lines 29-30)
LoadRaise(e) ==
    /\ stage = "new" /\ error = NoError
    /\ error' = CustomException(e, "load")
    /\ UNCHANGED <<y, result, summary, stage, agent_vars, last_refusal, intent_vars, localize_vars, chat_vars, boot, officer_vars>>

\* predict: preprocessor.transform returns (line 36)
TransformReturn ==
    /\ stage = "loaded" /\ error = NoError
    /\ stage' = "transformed"
    /\ UNCHANGED <<y, result, summary, error, agent_vars, last_refusal, intent_vars, localize_vars, chat_vars, boot, officer_vars>>

\* predict: preprocessor.transform raises (lines 36, 79-80)
TransformRaise(e) ==
    /\ stage = "loaded" /\ error = NoError
    /\ error' = CustomException(e, "transform")
    /\ UNCHANGED <<y, result, summary, stage, agent_vars, last_refusal, intent_vars, localize_vars, chat_vars, boot, officer_vars>>

\* the except clause re-raising the cause as it is
InferenceRaise_unwrapped(e) ==
    /\ stage = "transformed" /\ error = NoError
    /\ error' = [type |-> e, cause |-> e, stage |-> "predict"]
    /\ UNCHANGED <<y, result, summary, stage, agent_vars, last_refusal, intent_vars, localize_vars, chat_vars, boot, officer_vars>>

\* predict: one of the four model.predict calls raises (lines 38-41, 79-80)
InferenceRaise(e) ==
    /\ stage = "transformed" /\ error = NoError
    /\ error' = CustomException(e, "predict")
    /\ UNCHANGED <<y, result, summary, stage, agent_vars, last_refusal, intent_vars, localize_vars, chat_vars, boot, officer_vars>>

\* predict returns the result dict (lines 38-77)
PredictReturn ==
    /\ stage = "transformed" /\ error = NoError
    /\ result' = predict(y.y1, y.y2, y.y3, y.y4)
    /\ stage' = "returned"
    /\ UNCHANGED <<y, summary, error, agent_vars, last_refusal, intent_vars, localize_vars, chat_vars, boot, officer_vars>>

\* the agent renders the block for the submitted sample and that result
RenderCompact ==
    /\ stage = "returned"
    /\ summary = <<>>
    /\ summary' = _render_compact(sample_full, result)
    /\ UNCHANGED <<y, result, stage, error, agent_vars, last_refusal, intent_vars, localize_vars, chat_vars, boot, officer_vars>>

NextPredict ==
    \/ LoadReturn
    \/ \E e \in causes : LoadRaise(e)
    \/ TransformReturn
    \/ \E e \in causes : TransformRaise(e)
    \/ \E e \in causes : InferenceRaise(e)
    \/ PredictReturn
    \/ RenderCompact

SpecPredict == InitPredict /\ [][NextPredict]_vars

(***************************************************************************)
(* SpecLocalize: _localize_text applied to a reply text, then to its own   *)
(* output                                                                  *)
(***************************************************************************)
\* "Ban", "ban", "Toi", "toi", "Khong", "nhanh", "nghiem trong", " ", "k", "be"
localize_frags ==
    {
      <<"B", "aj", "n">>,
      <<"b", "aj", "n">>,
      <<"T", "oo", "i">>,
      <<"t", "oo", "i">>,
      <<"K", "h", "oo", "n", "g">>,
      <<"n", "h", "a", "n", "h">>,
      <<"n", "g", "h", "i", "ee", "m", " ", "t", "r", "oj", "n", "g">>,
      <<" ">>,
      <<"k">>,
      <<"b", "ef">>
    }

LocalizeTexts == concat_upto(localize_frags, MaxLocalizeFrags)

InitLocalize ==
    /\ raw \in LocalizeTexts
    /\ passes = <<>>
    /\ AgentIdle
    /\ qa_chain = "None"
    /\ last_refusal = NoRefusal
    /\ IntentIdle
    /\ PredictIdle
    /\ ChatIdle
    /\ BootIdle
    /\ OfficerIdle

\* _localize_text called on the text, then on what it returned
Localize ==
    /\ Len(passes) < 2
    /\ passes' = Append(passes, _localize_text(IF passes = <<>> THEN raw ELSE passes[Len(passes)]))
    /\ UNCHANGED <<raw, agent_vars, last_refusal, intent_vars, predict_vars, chat_vars, boot, officer_vars>>

NextLocalize == Localize

SpecLocalize == InitLocalize /\ [][NextLocalize]_vars

(***************************************************************************)
(* SpecChat: the requests of one browser session against the web app       *)
(***************************************************************************)
UserIds == 1..MaxUsers

\* d[k] = v
dict_set(d, k, v) == [x \in DOMAIN d \cup {k} |-> IF x = k THEN v ELSE d[x]]

\* d.pop(k, None)
dict_pop(d, k) == [x \in DOMAIN d \ {k} |-> d[x]]

\* _norm_scope
_norm_scope(s) == lower(strip(or_empty(s)))

\* values of OFFICER_CODES: not set, and "cb01, CB02,"
officer_envs == { <<>>, <<"c", "b", "0", "1", ",", " ", "C", "B", "0", "2", ",">> }

\* lines 78-79: the pieces of the value that are not blank, trimmed and in
\* upper case, for each value of OFFICER_CODES
officer_codes ==
    [e \in officer_envs |->
        LET parts == split(strip(e), ",")
        IN  { upper(strip(parts[i])) : i \in {j \in 1..Len(parts) : strip(parts[j]) # <<>>} }]

\* get_officer_codes
get_officer_codes == officer_codes[officer_env]

\* staff_code_valid without lines 84-85
staff_code_valid_strict(code) == upper(strip(or_empty(code))) \in get_officer_codes

\* staff_code_valid: any code is valid when no code is configured
staff_code_valid(code) ==
    IF get_officer_codes = {} THEN TRUE
    ELSE upper(strip(or_empty(code))) \in get_officer_codes

\* _refresh_flags_from_user (keys tinh and biet_danh are left out)
_refresh_flags_from_user(s, u) ==
    LET ma_can_bo == or_empty(u.ma_can_bo)
    IN  dict_set(dict_set(dict_set(s, "vai_tro", u.vai_tro), "ma_can_bo", ma_can_bo),
                 "ma_can_bo_hop_le", IF u.vai_tro = "officer" THEN staff_code_valid(ma_can_bo) ELSE FALSE)

\* the before_request hook: a session whose user row is gone is cleared, any
\* other gets the flags of its row
sync_user_session(s) ==
    IF "nguoi_dung_id" \notin DOMAIN s THEN s
    ELSE IF s["nguoi_dung_id"] \notin users THEN EmptyDict
    ELSE _refresh_flags_from_user(s, accounts[s["nguoi_dung_id"]])

\* the decorator lets the request through to the route
officer_required(s) ==
    dict_get(s, "vai_tro", "") = "officer" /\ dict_get(s, "ma_can_bo_hop_le", FALSE)

\* the decorator lets the request through to the route
login_required(s) == "nguoi_dung_id" \in DOMAIN s

\* os.urandom(8).hex()
session_ids == {"5f1c"}

\* chat_input of the form: blank, "hi", "tom bo an"
chat_questions ==
    { <<" ">>, <<"h", "i">>, <<"t", "oo", "m", " ", "b", "or", " ", "aw", "n">> }

\* what agent.answer returns, or "raise" when it raises
answers == {advice_first, "raise"}

predict_first ==
    "Da minh nhap thong so nuoc roi bam **Du doan** truoc nghen, roi hoi em tiep."

\* a second form, with another pH
sample_acid == [sample_full EXCEPT !["PH"] = V_float("6.1")]

\* what pipeline.predict does with the row of a submitted form: the result it
\* returns, or the exception it raises
submissions ==
    { [input |-> sample_full, result |-> predict(0, 50004, 1, 1)],
      [input |-> sample_acid, result |-> predict(1, 50004, 0, 0)],
      [input |-> sample_acid, result |-> CustomException("ValueError", "predict")] }

\* lines 394-395 before line 392
input_before_predict(s, sub) ==
    IF "task1_text" \in DOMAIN sub.result
    THEN dict_set(dict_set(s, "last_results", sub.result), "last_input", sub.input)
    ELSE dict_set(s, "last_input", sub.input)

\* lines 392-395: the session keeps the result and the row once predict has
\* returned; when it raises the request ends before line 394
keep_prediction(s, sub) ==
    IF "task1_text" \in DOMAIN sub.result
    THEN dict_set(dict_set(s, "last_results", sub.result), "last_input", sub.input)
    ELSE s

\* lines 525 with the test left out
has_prediction_always(s) == TRUE

\* line 525: both of last_results and last_input are held (session.get gives
\* None for a key that is not there; lines 394-395 never store None)
has_prediction(s) == "last_results" \in DOMAIN s /\ "last_input" \in DOMAIN s

\* which of the two commits of a /chat request succeed
commits == [user : BOOLEAN, assistant : BOOLEAN]

\* lines 519-523 and 530-534: a row of tin_nhan_chat, when the commit succeeds
\* (columns nguoi_dung_id and session_id are left out of a row)
add_row(rows, vai, noi_dung, committed) ==
    IF committed THEN Append(rows, [vai |-> vai, noi_dung |-> noi_dung]) ELSE rows

\* lines 536-538 keeping the latest exchange only
append_turns_latest(h, cau_hoi, tra_loi) ==
    <<[role |-> "user", content |-> cau_hoi], [role |-> "assistant", content |-> tra_loi]>>

\* lines 536-538 with the two appends in the other order
append_turns_assistant_first(h, cau_hoi, tra_loi) ==
    h \o <<[role |-> "assistant", content |-> tra_loi], [role |-> "user", content |-> cau_hoi]>>

\* lines 536-538: the user turn and the assistant turn, after the turns held
\* (content_html, the sanitized rendering of content, is left out of a turn)
append_turns(h, cau_hoi, tra_loi) ==
    h \o <<[role |-> "user", content |-> cau_hoi], [role |-> "assistant", content |-> tra_loi]>>

\* the row /register commits: a farmer of the commune given
farmer(xa) == [vai_tro |-> "farmer", ma_can_bo |-> PyNone, xa |-> xa]

InitChat ==
    /\ session = EmptyDict
    /\ users = UserIds
    /\ tin_nhan_chat = <<>>
    /\ answered = FALSE
    /\ accounts = [u \in UserIds |-> farmer(PyNone)]
    /\ officer_env = <<>> /\ thong_bao = <<>>
    /\ da_doc_thong_bao = <<>> /\ reqs = <<>> /\ response = ""
    /\ AgentIdle
    /\ qa_chain = "None"
    /\ last_refusal = NoRefusal
    /\ IntentIdle
    /\ PredictIdle
    /\ LocalizeIdle
    /\ BootIdle

\* the row of user u leaves table nguoi_dung (the case lines 263-266 handle)
user_removed(u) ==
    /\ u \in users
    /\ users' = users \ {u}
    /\ UNCHANGED <<session, tin_nhan_chat, answered, agent_vars, last_refusal, intent_vars, predict_vars, localize_vars, boot, officer_vars>>

\* POST /login with the credentials of user u
login(u) ==
    /\ u \in users
    /\ session' = dict_set(dict_set(_refresh_flags_from_user(dict_set(EmptyDict, "nguoi_dung_id", u),
                                                               accounts[u]),
                                     "chat_history", <<>>), "scroll_to_bottom", FALSE)
    /\ UNCHANGED <<users, tin_nhan_chat, answered, agent_vars, last_refusal, intent_vars, predict_vars, localize_vars, boot, officer_vars>>

\* GET /logout
logout ==
    /\ session' = EmptyDict
    /\ UNCHANGED <<users, tin_nhan_chat, answered, agent_vars, last_refusal, intent_vars, predict_vars, localize_vars, boot, officer_vars>>

\* GET /predictdata
home ==
    /\ LET s0 == sync_user_session(session)
       IN  IF ~login_required(s0) THEN session' = s0
           ELSE session' = dict_pop(dict_set(s0, "_permanent", TRUE), "scroll_to_bottom")
    /\ UNCHANGED <<users, tin_nhan_chat, answered, agent_vars, last_refusal, intent_vars, predict_vars, localize_vars, boot, officer_vars>>

\* _calc_notice_level
_calc_notice_level(res) ==
    LET t1 == lower(or_empty(dict_get(res, "task1_text", PyNone)))
        t3 == lower(or_empty(dict_get(res, "task3_text", PyNone)))
    IN  IF \/ contains(<<"c", "a", "o">>, t1)
           \/ contains(<<"k", "h", "oo", "n", "g", " ", "p", "h", "uf", " ", "h", "owj", "p">>, t3)
           \/ contains(<<"n", "g", "u", "y", " ", "h", "i", "eer", "m">>, t3)
        THEN "danger"
        ELSE IF \/ contains(<<"t", "r", "u", "n", "g">>, t1)
                \/ contains(<<"c", "ar", "n", "h", " ", "b", "as", "o">>, t3)
        THEN "warn"
        ELSE "info"

\* the characters of form field XA
form_text == ("Tan Duyet" :> <<"T", "a", "n", " ", "D", "u", "y", "e", "t">>)

\* lines 430-451: the notice an officer's prediction leaves for the commune of
\* the officer (of the form when the row has none); columns tieu_de, noi_dung
\* and mau_nuoc_id are left out, and a target_user_id of 0 stands for NULL
officer_notice(rows, s, res, xa, committed) ==
    LET uid == s["nguoi_dung_id"]
        scope_xa == _norm_scope(IF accounts[uid].xa # PyNone THEN accounts[uid].xa ELSE xa)
    IN  IF officer_required(s) /\ scope_xa # <<>> /\ committed
        THEN Append(rows, [id |-> Len(rows) + 1, nguoi_tao_id |-> uid, scope_type |-> "commune",
                           scope_value |-> scope_xa, target_user_id |-> 0,
                           muc_do |-> _calc_notice_level(res)])
        ELSE rows

\* POST /predictdata with a form
predict_datapoint(sub) ==
    /\ LET s0 == sync_user_session(session)
       IN  IF ~login_required(s0) THEN session' = s0 /\ UNCHANGED thong_bao
           ELSE /\ session' = keep_prediction(dict_set(s0, "_permanent", TRUE), sub)
                /\ \E committed \in (IF Len(thong_bao) < MaxNotices THEN BOOLEAN ELSE {FALSE}) :
                       thong_bao' =
                           IF "task1_text" \in DOMAIN sub.result
                           THEN officer_notice(thong_bao, s0, sub.result, form_text[sub.input["XA"].v], committed)
                           ELSE thong_bao
    /\ UNCHANGED <<users, tin_nhan_chat, answered, agent_vars, last_refusal, intent_vars, predict_vars, localize_vars, boot,
                   accounts, officer_env, da_doc_thong_bao, reqs, response>>

\* chat with line 528 in a try of its own that answers with an apology
chat_apologises(q, a) ==
    /\ Len(dict_get(session, "chat_history", <<>>)) < 2 * MaxChats
    /\ LET s0 == sync_user_session(session)
           s1 == dict_set(s0, "_permanent", TRUE)
           cau_hoi == strip(q)
       IN  IF ~login_required(s0)
           THEN session' = s0 /\ answered' = FALSE /\ tin_nhan_chat' = <<>>
           ELSE IF cau_hoi = <<>>
           THEN session' = s1 /\ answered' = FALSE /\ tin_nhan_chat' = <<>>
           ELSE \E sid \in (IF "sid" \in DOMAIN s1 THEN {s1["sid"]} ELSE session_ids),
                   committed \in commits :
                LET s2 == dict_set(s1, "sid", sid)
                    ready == has_prediction(s2)
                    rows == add_row(<<>>, "user", cau_hoi, committed.user)
                    raised == FALSE
                    tra_loi == IF ~ready THEN predict_first ELSE IF a = "raise" THEN "Da em dang ban" ELSE a
                IN  /\ answered' = ready
                    /\ IF raised
                       THEN session' = s2 /\ tin_nhan_chat' = rows
                       ELSE /\ tin_nhan_chat' = add_row(rows, "assistant", tra_loi, committed.assistant)
                            /\ session' =
                                 dict_set(dict_set(s2, "chat_history",
                                                   append_turns(dict_get(s2, "chat_history", <<>>), cau_hoi, tra_loi)),
                                          "scroll_to_bottom", TRUE)
    /\ UNCHANGED <<users, agent_vars, last_refusal, intent_vars, predict_vars, localize_vars, boot, officer_vars>>

\* POST /chat with chat_input q; a is what agent.answer does if it is called
chat(q, a) ==
    /\ Len(dict_get(session, "chat_history", <<>>)) < 2 * MaxChats
    /\ LET s0 == sync_user_session(session)
           s1 == dict_set(s0, "_permanent", TRUE)
           cau_hoi == strip(q)
       IN  IF ~login_required(s0)
           THEN session' = s0 /\ answered' = FALSE /\ tin_nhan_chat' = <<>>
           ELSE IF cau_hoi = <<>>
           THEN session' = s1 /\ answered' = FALSE /\ tin_nhan_chat' = <<>>
           ELSE \E sid \in (IF "sid" \in DOMAIN s1 THEN {s1["sid"]} ELSE session_ids),
                   committed \in commits :
                LET s2 == dict_set(s1, "sid", sid)
                    ready == has_prediction(s2)
                    rows == add_row(<<>>, "user", cau_hoi, committed.user)
                    raised == ready /\ a = "raise"
                    tra_loi == IF ready THEN a ELSE predict_first
                IN  /\ answered' = ready
                    /\ IF raised
                       THEN session' = s2 /\ tin_nhan_chat' = rows
                       ELSE /\ tin_nhan_chat' = add_row(rows, "assistant", tra_loi, committed.assistant)
                            /\ session' =
                                 dict_set(dict_set(s2, "chat_history",
                                                   append_turns(dict_get(s2, "chat_history", <<>>), cau_hoi, tra_loi)),
                                          "scroll_to_bottom", TRUE)
    /\ UNCHANGED <<users, agent_vars, last_refusal, intent_vars, predict_vars, localize_vars, boot, officer_vars>>

\* POST /chat/clear
clear_chat ==
    /\ LET s0 == sync_user_session(session)
       IN  IF ~login_required(s0) THEN session' = s0
           ELSE session' = dict_set(dict_pop(dict_set(s0, "_permanent", TRUE), "chat_history"),
                                    "scroll_to_bottom", FALSE)
    /\ UNCHANGED <<users, tin_nhan_chat, answered, agent_vars, last_refusal, intent_vars, predict_vars, localize_vars, boot, officer_vars>>

NextChat ==
    \/ \E u \in UserIds : user_removed(u)
    \/ \E u \in UserIds : login(u)
    \/ logout
    \/ home
    \/ \E sub \in submissions : predict_datapoint(sub)
    \/ \E q \in chat_questions, a \in answers : chat(q, a)
    \/ clear_chat

SpecChat == InitChat /\ [][NextChat]_vars

(***************************************************************************)
(* SpecOfficer: one browser session changing its profile, asking for the   *)
(* officer pages and submitting forms as an officer                        *)
(***************************************************************************)
\* fields role, staff_code and commune of the profile form
roles == {"farmer", "officer", "admin"}

staff_codes == { <<>>, <<" ", "c", "b", "0", "1">>, <<"z", "z", "9">> }

communes == { <<>>, <<" ", "V", "i", "e", "n", " ", "A", "n">> }

\* the user at the browser
officer_ids == {1}

InitOfficer ==
    /\ session = EmptyDict
    /\ users = UserIds
    /\ tin_nhan_chat = <<>>
    /\ answered = FALSE
    /\ accounts = [u \in UserIds |-> farmer(PyNone)]
    /\ officer_env \in officer_envs
    /\ thong_bao = <<>>
    /\ da_doc_thong_bao = <<>> /\ reqs = <<>> /\ response = ""
    /\ AgentIdle
    /\ qa_chain = "None"
    /\ last_refusal = NoRefusal
    /\ IntentIdle
    /\ PredictIdle
    /\ LocalizeIdle
    /\ BootIdle

\* POST /profile
profile(role, staff_code, commune, committed) ==
    /\ LET s0 == sync_user_session(session)
           uid == s0["nguoi_dung_id"]
           vai_tro == IF role \in {"farmer", "officer"} THEN role ELSE "farmer"
           ma_can_bo == strip(staff_code)
           xa == IF strip(commune) = <<>> THEN PyNone ELSE strip(commune)
           u == [vai_tro |-> vai_tro,
                 ma_can_bo |-> IF vai_tro = "officer" THEN upper(ma_can_bo) ELSE PyNone,
                 xa |-> xa]
       IN  IF ~login_required(s0)
           THEN session' = s0 /\ response' = "login" /\ UNCHANGED accounts
           ELSE IF vai_tro = "officer" /\ (ma_can_bo = <<>> \/ ~staff_code_valid(ma_can_bo))
           THEN session' = s0 /\ response' = "profile.html error" /\ UNCHANGED accounts
           ELSE IF ~committed
           THEN session' = s0 /\ response' = "profile.html error" /\ UNCHANGED accounts
           ELSE /\ accounts' = [accounts EXCEPT ![uid] = u]
                /\ session' = _refresh_flags_from_user(s0, u)
                /\ response' = "predict_datapoint"
    /\ UNCHANGED <<users, tin_nhan_chat, answered, agent_vars, last_refusal, intent_vars, predict_vars, localize_vars, boot,
                   officer_env, thong_bao, da_doc_thong_bao, reqs>>

\* GET /officer/harvest, behind login_required and officer_required
officer_harvest ==
    /\ LET s0 == sync_user_session(session)
       IN  /\ session' = s0
           /\ response' = IF ~login_required(s0) THEN "login"
                           ELSE IF ~officer_required(s0) THEN "profile"
                           ELSE "officer_harvest.html"
    /\ UNCHANGED <<users, tin_nhan_chat, answered, agent_vars, last_refusal, intent_vars, predict_vars, localize_vars, boot,
                   accounts, officer_env, thong_bao, da_doc_thong_bao, reqs>>

NextOfficer ==
    \/ \E u \in officer_ids : login(u)
    \/ logout
    \/ \E role \in roles, staff_code \in staff_codes, commune \in communes, committed \in BOOLEAN :
           profile(role, staff_code, commune, committed)
    \/ officer_harvest
    \/ \E sub \in submissions : predict_datapoint(sub)

SpecOfficer == InitOfficer /\ [][NextOfficer]_vars

(***************************************************************************)
(* SpecNotice: /api/notices/read requests of signed-in users, served side  *)
(* by side                                                                 *)
(***************************************************************************)
Requests == 1..MaxReqs

\* str.isdigit and int, of a string of ASCII digits
digits == ("0" :> 0) @@ ("1" :> 1) @@ ("2" :> 2) @@ ("3" :> 3) @@ ("9" :> 9)

isdigit(s) == s # <<>> /\ \A i \in 1..Len(s) : s[i] \in DOMAIN digits

RECURSIVE int(_)
int(s) == IF s = <<>> THEN 0 ELSE 10 * int(SubSeq(s, 1, Len(s) - 1)) + digits[s[Len(s)]]

\* field notice_id of the form
notice_ids == { <<" ", "1">>, <<"2">>, <<"3">>, <<"9">>, <<"x">> }

\* the notices in the table: two commune notices as an officer's prediction
\* leaves them, and one addressed to user 2
notices ==
    << [id |-> 1, nguoi_tao_id |-> 2, scope_type |-> "commune",
        scope_value |-> <<"t", "a", "n", " ", "d", "u", "y", "e", "t">>, target_user_id |-> 0,
        muc_do |-> "info"],
       [id |-> 2, nguoi_tao_id |-> 2, scope_type |-> "commune",
        scope_value |-> <<"v", "i", "e", "n", " ", "a", "n">>, target_user_id |-> 0,
        muc_do |-> "info"],
       [id |-> 3, nguoi_tao_id |-> 1, scope_type |-> "user", scope_value |-> <<"u", "s", "e", "r">>,
        target_user_id |-> 2, muc_do |-> "info"] >>

\* a request not made yet
NoRequest == [pc |-> "new", uid |-> 0, tb |-> 0, resp |-> ""]

InitNotice ==
    /\ session = EmptyDict
    /\ users = UserIds
    /\ tin_nhan_chat = <<>>
    /\ answered = FALSE
    /\ accounts = [u \in UserIds |->
                       farmer(IF u = 1 THEN <<"T", "a", "n", " ", "D", "u", "y", "e", "t">> ELSE PyNone)]
    /\ officer_env = <<>>
    /\ thong_bao = notices
    /\ da_doc_thong_bao = <<>>
    /\ reqs = [r \in Requests |-> NoRequest]
    /\ response = [uid |-> 0, notices |-> {}]
    /\ AgentIdle
    /\ qa_chain = "None"
    /\ last_refusal = NoRefusal
    /\ IntentIdle
    /\ PredictIdle
    /\ LocalizeIdle
    /\ BootIdle

\* the unread commune notices of a user, the newest first: the ids of the rows
get_commune_notices_for_user(user_id, xa, limit) ==
    LET scope == _norm_scope(xa)
        unread == { n \in 1..Len(thong_bao) :
                      /\ thong_bao[n].scope_type = "commune"
                      /\ thong_bao[n].scope_value = scope
                      /\ ~\E i \in 1..Len(da_doc_thong_bao) :
                             /\ da_doc_thong_bao[i].thong_bao_id = thong_bao[n].id
                             /\ da_doc_thong_bao[i].nguoi_dung_id = user_id }
    IN  IF scope = <<>> THEN {}
        ELSE { thong_bao[n].id : n \in { m \in unread : Cardinality({k \in unread : k > m}) < limit } }

\* lines 471-493: request r of user uid, up to the query for a read record
mark_notice_read(r, uid, notice_id) ==
    /\ reqs[r].pc = "new"
    /\ LET nid == strip(notice_id)
           found == IF isdigit(nid) THEN { n \in 1..Len(thong_bao) : thong_bao[n].id = int(nid) } ELSE {}
           tb == thong_bao[CHOOSE n \in found : TRUE]
           user_scope == _norm_scope(accounts[uid].xa)
           allow == \/ tb.target_user_id # 0 /\ tb.target_user_id = uid
                    \/ tb.scope_type = "commune" /\ tb.scope_value = user_scope
           existed == \E i \in 1..Len(da_doc_thong_bao) :
                          /\ da_doc_thong_bao[i].thong_bao_id = tb.id
                          /\ da_doc_thong_bao[i].nguoi_dung_id = uid
           done(resp) == [pc |-> "done", uid |-> uid, tb |-> 0, resp |-> resp]
       IN  reqs' = [reqs EXCEPT ![r] =
                       IF ~isdigit(nid) THEN done("400 notice_id invalid")
                       ELSE IF found = {} THEN done("404 not found")
                       ELSE IF ~allow THEN done("403 forbidden")
                       ELSE IF existed THEN done("ok already")
                       ELSE [pc |-> "insert", uid |-> uid, tb |-> tb.id, resp |-> ""]]
    /\ UNCHANGED <<chat_vars, agent_vars, last_refusal, intent_vars, predict_vars, localize_vars, boot,
                   accounts, officer_env, thong_bao, da_doc_thong_bao, response>>

\* lines 495-501 on a table without constraint uq_read_notice
mark_notice_read_commit_any(r, committed) ==
    /\ reqs[r].pc = "insert"
    /\ IF committed
       THEN /\ da_doc_thong_bao' =
                 Append(da_doc_thong_bao, [thong_bao_id |-> reqs[r].tb, nguoi_dung_id |-> reqs[r].uid])
            /\ reqs' = [reqs EXCEPT ![r] = [pc |-> "done", uid |-> reqs[r].uid, tb |-> 0, resp |-> "ok"]]
       ELSE /\ reqs' = [reqs EXCEPT ![r] = [pc |-> "done", uid |-> reqs[r].uid, tb |-> 0, resp |-> "500 db error"]]
            /\ UNCHANGED da_doc_thong_bao
    /\ UNCHANGED <<chat_vars, agent_vars, last_refusal, intent_vars, predict_vars, localize_vars, boot,
                   accounts, officer_env, thong_bao, response>>

\* lines 495-501: the insert of request r is committed, or the commit raises
\* and is rolled back; it raises whenever the table holds the pair already
\* (db_models.py 135-137)
mark_notice_read_commit(r, committed) ==
    /\ reqs[r].pc = "insert"
    /\ IF /\ committed
          /\ ~\E i \in 1..Len(da_doc_thong_bao) :
                 /\ da_doc_thong_bao[i].thong_bao_id = reqs[r].tb
                 /\ da_doc_thong_bao[i].nguoi_dung_id = reqs[r].uid
       THEN /\ da_doc_thong_bao' =
                 Append(da_doc_thong_bao, [thong_bao_id |-> reqs[r].tb, nguoi_dung_id |-> reqs[r].uid])
            /\ reqs' = [reqs EXCEPT ![r] = [pc |-> "done", uid |-> reqs[r].uid, tb |-> 0, resp |-> "ok"]]
       ELSE /\ reqs' = [reqs EXCEPT ![r] = [pc |-> "done", uid |-> reqs[r].uid, tb |-> 0, resp |-> "500 db error"]]
            /\ UNCHANGED da_doc_thong_bao
    /\ UNCHANGED <<chat_vars, agent_vars, last_refusal, intent_vars, predict_vars, localize_vars, boot,
                   accounts, officer_env, thong_bao, response>>

\* GET /predictdata of user uid, lines 350-353: the notices it shows
show_notices(uid) ==
    /\ response' = [uid |-> uid, notices |-> get_commune_notices_for_user(uid, accounts[uid].xa, 5)]
    /\ UNCHANGED <<chat_vars, agent_vars, last_refusal, intent_vars, predict_vars, localize_vars, boot,
                   accounts, officer_env, thong_bao, da_doc_thong_bao, reqs>>

NextNotice ==
    \/ \E r \in Requests, uid \in UserIds, notice_id \in notice_ids : mark_notice_read(r, uid, notice_id)
    \/ \E r \in Requests, committed \in BOOLEAN : mark_notice_read_commit(r, committed)
    \/ \E uid \in UserIds : show_notices(uid)

SpecNotice == InitNotice /\ [][NextNotice]_vars

(***************************************************************************)
(* SpecStartup: app.py is imported (lines 100-105), and the agent it built *)
(* answers                                                                 *)
(***************************************************************************)
InitStartup ==
    /\ boot \in [api_key : {"", "sk"}, rag : {"unset"}, vectordb : {"unset"}, agent : {"none"}]
    /\ AgentIdle
    /\ qa_chain = "None"
    /\ last_refusal = NoRefusal
    /\ IntentIdle
    /\ PredictIdle
    /\ LocalizeIdle
    /\ ChatIdle
    /\ OfficerIdle

\* line 102 outside the try: a failure of load_rag_db ends the import
load_rag_db_unguarded(out) ==
    /\ stage = "loaded" /\ error = NoError /\ boot.rag = "unset"
    /\ out = "db" => boot.api_key # ""
    /\ boot' = [boot EXCEPT !.rag = out,
                            !.vectordb = IF out = "raise" THEN "unset" ELSE IF out = "db" THEN "db" ELSE "None",
                            !.agent = IF out = "raise" THEN "failed" ELSE "none"]
    /\ UNCHANGED <<agent_vars, last_refusal, intent_vars, predict_vars, localize_vars, chat_vars, officer_vars>>

\* lines 101-104: load_rag_db finds no PDF ("no_pdf", returns None), raises
\* ("raise"), or returns the vector database ("db", OpenAIEmbeddings needs the
\* credential)
load_rag_db(out) ==
    /\ stage = "loaded" /\ error = NoError /\ boot.rag = "unset"
    /\ out = "db" => boot.api_key # ""
    /\ boot' = [boot EXCEPT !.rag = out, !.vectordb = IF out = "db" THEN "db" ELSE "None"]
    /\ UNCHANGED <<agent_vars, last_refusal, intent_vars, predict_vars, localize_vars, chat_vars, officer_vars>>

\* OpenAILM.__init__ without lines 16-20
ShrimpAgent__init___any_key ==
    /\ boot.vectordb # "unset" /\ boot.agent = "none"
    /\ boot' = [boot EXCEPT !.agent = "built"]
    /\ qa_chain' = IF boot.vectordb = "None" THEN "None" ELSE "chain"
    /\ UNCHANGED <<pc, question, water_data, prediction, has_data, has_pred, rule_it, it, llm_out,
                   rag_resp, reply_resp, calls, prompt, ret,
                   last_refusal, intent_vars, predict_vars, localize_vars, chat_vars, officer_vars>>

\* line 105: ShrimpAgent(vectordb=vectordb); OpenAILM.__init__ raises when
\* OPENAI_API_KEY is not set, before qa_chain is assigned
ShrimpAgent__init__ ==
    /\ boot.vectordb # "unset" /\ boot.agent = "none"
    /\ boot' = [boot EXCEPT !.agent = IF boot.api_key = "" THEN "failed" ELSE "built"]
    /\ qa_chain' = IF boot.api_key = "" \/ boot.vectordb = "None" THEN "None" ELSE "chain"
    /\ UNCHANGED <<pc, question, water_data, prediction, has_data, has_pred, rule_it, it, llm_out,
                   rag_resp, reply_resp, calls, prompt, ret,
                   last_refusal, intent_vars, predict_vars, localize_vars, chat_vars, officer_vars>>

NextStartup ==
    \/ LoadReturn
    \/ \E e \in causes : LoadRaise(e)
    \/ \E out \in {"no_pdf", "raise", "db"} : load_rag_db(out)
    \/ ShrimpAgent__init__
    \/ boot.agent = "built" /\ AnswerSteps
    \/ boot.agent = "built" /\ AnswerDone

SpecStartup == InitStartup /\ [][NextStartup]_vars

(***************************************************************************)
(* Properties                                                              *)
(***************************************************************************)
\* "phân tích giúp em"
q_analyse_for_me ==
    <<"p", "h", "aa", "n", " ", "t", "is", "c", "h", " ", "g", "i", "us", "p", " ", "e", "m">>

\* "tôm tôi bị đen mang, bỏ ăn"
q_black_gills ==
    <<"t", "oo", "m", " ", "t", "oo", "i", " ", "b", "ij", " ", "dd", "e", "n", " ", "m", "a", "n", "g", ",",
      " ", "b", "or", " ", "aw", "n">>

\* "phân tích"
q_analyse == <<"p", "h", "aa", "n", " ", "t", "is", "c", "h">>

\* the number of calls of one kind among the calls made
count(cs, k) == Cardinality({n \in DOMAIN cs : cs[n] = k})

\* answer() has fixed its final intent and acted on it
dispatched == pc \in {"retrieval", "llm_reply", "done"} /\ ret # Raised("llm_intent")

\* answer() returned one of the two "enter readings first" messages
refused == ret.kind = "return" /\ ret.src = "fixed"

\* C1: _rule_intent returns the first rule that applies, in the order empty ->
\* unknown, greeting -> greet, shrimp token and symptom keyword -> symptom,
\* meta -> meta, then analysis / advice / ambiguous / unknown by which of the
\* analysis and advice keyword sets match.
C1_RulePriority ==
    label # NoLabel =>
        LET t == lower(strip(text))
            g == _is_greeting(text)
            sym == /\ contains(<<"t", "oo", "m">>, t) \/ contains(<<"t", "o", "m">>, t)
                   /\ \E k \in symptom_keywords : contains(k, t)
            m == _is_smalltalk_or_meta(text)
            a == _is_analysis_only(text)
            b == _is_advice(text)
        IN  /\ t = <<>> => label = "unknown"
            /\ t # <<>> /\ g => label = "greet"
            /\ t # <<>> /\ ~g /\ sym => label = "symptom"
            /\ t # <<>> /\ ~g /\ ~sym /\ m => label = "meta"
            /\ t # <<>> /\ ~g /\ ~sym /\ ~m =>
                   label = IF a /\ ~b THEN "analysis"
                           ELSE IF b /\ ~a THEN "advice"
                           ELSE IF a /\ b THEN "ambiguous"
                           ELSE "unknown"

\* a question matching a greeting and a symptom pattern, classified greet
C1_Witness == label = "greet" /\ _is_symptom_question(text)

\* C2: a question that is a greeting phrase, or starts with one followed by a
\* space, is greet; and a question is greet only if a greeting phrase is a
\* prefix of it (trimmed, lower-cased) that ends at the end of the text or
\* before a space, so "history" is not.
C2_GreetingBoundary ==
    label # NoLabel =>
        LET t == lower(strip(text))
        IN  /\ \A p \in greeting_prefixes :
                   (text = p \/ startswith(text, p \o <<" ">>)) => label = "greet"
            /\ label = "greet" =>
                   \E p \in greeting_prefixes :
                       /\ startswith(t, p)
                       /\ Len(t) = Len(p) \/ t[Len(p) + 1] = " "

\* "history..." has been classified, and not as greet
C2_Witness ==
    /\ label \notin {NoLabel, "greet"}
    /\ startswith(text, <<"h", "i", "s", "t", "o", "r", "y">>)

\* C3 as stated: answer("phân tích giúp em") without sample data makes no
\* language-model call and returns the fixed message.
C3_NoModelCall ==
    (question = q_analyse_for_me /\ ~has_data /\ pc # "idle") =>
        /\ calls = <<>>
        /\ pc = "done" /\ refused

\* C3 amended: "phân tích giúp em" matches an analysis and an advice keyword,
\* so it is ambiguous and the classification call is made; without sample
\* data the fixed message is returned, with no retrieval and no reply call,
\* when that call answers analysis or advice.  A question matching analysis
\* keywords only ("phân tích") gets the fixed message with no call at all.
C3_AmbiguousAsksModel ==
    /\ (question = q_analyse_for_me /\ pc # "idle") =>
           /\ rule_it = "ambiguous"
           /\ calls # <<>> /\ calls[1] = "llm_intent"
           /\ (dispatched /\ it \in {"analysis", "advice"} /\ ~has_data) =>
                  /\ pc = "done" /\ ret = Returned("fixed", refusal(it))
                  /\ calls = <<"llm_intent">>
    /\ (question = q_analyse /\ ~has_data /\ pc # "idle") =>
           /\ pc = "done" /\ ret = Returned("fixed", analysis_first)
           /\ calls = <<>>

\* "phân tích giúp em" without sample data, answered with the fixed message
\* after the classification call said analysis
C3_Witness ==
    /\ question = q_analyse_for_me /\ ~has_data /\ pc = "done"
    /\ it = "analysis" /\ ret = Returned("fixed", analysis_first)
    /\ calls = <<"llm_intent">>

\* C4: with final intent analysis or advice and the sample data or the
\* prediction absent, answer returns one of the two fixed messages without a
\* retrieval or reply call; an analysis or advice prompt is only built with
\* both present.
C4_RefusalWithoutReading ==
    /\ (dispatched /\ it \in {"analysis", "advice"}
            /\ (~_has_any_water_data(water_data) \/ prediction = EmptyDict)) =>
           /\ pc = "done"
           /\ ret \in {Returned("fixed", analysis_first), Returned("fixed", advice_first)}
           /\ count(calls, "retrieval") = 0 /\ count(calls, "llm_reply") = 0
           /\ prompt = NoPrompt
    /\ (count(calls, "retrieval") > 0 \/ prompt.kind \in {"analysis", "advice"}) =>
           _has_any_water_data(water_data) /\ prediction # EmptyDict

\* an advice request with sample data but no prediction, refused
C4_Witness ==
    /\ pc = "done" /\ it = "advice" /\ has_data /\ ~has_pred
    /\ ret = Returned("fixed", advice_first) /\ calls = <<>>

\* C5 as stated: the refusal of a call that lacks only the sample data differs
\* from the refusal of a call that lacks only the prediction.
C5_NamesWhatIsMissing ==
    (refused /\ last_refusal # NoRefusal /\ missing_now \in {"data", "prediction"}
         /\ missing_now # last_refusal.missing) =>
        ret.text # last_refusal.text

\* C5 amended: the fixed message is chosen by the intent alone (one message for
\* analysis, another for advice): two refusals carry the same message exactly
\* when their intents are the same, whichever input each call lacked.
C5_MessageByIntent ==
    /\ analysis_first # advice_first
    /\ refused => ret.text = IF it = "analysis" THEN analysis_first ELSE advice_first
    /\ (refused /\ last_refusal # NoRefusal) =>
           (ret.text = last_refusal.text <=> it = last_refusal.it)

\* an analysis request lacking only the prediction gets the message an
\* analysis request lacking only the sample data got before
C5_Witness ==
    /\ refused /\ it = "analysis" /\ missing_now = "prediction"
    /\ last_refusal = [it |-> "analysis", missing |-> "data", text |-> analysis_first]
    /\ ret.text = analysis_first

\* C6: the classification call is made exactly when the rules say ambiguous or
\* unknown, and once; the intent answer acts on is one of the six labels; a
\* response that does not parse to an object, or whose label (as read: trimmed
\* and lower-cased) is not one of the six, gives knowledge.
C6_FallbackClosesIntent ==
    /\ pc # "idle" =>
           count(calls, "llm_intent") = IF rule_it \in {"unknown", "ambiguous"} THEN 1 ELSE 0
    /\ dispatched => it \in allowed
    /\ (dispatched /\ count(calls, "llm_intent") = 1) =>
           /\ llm_out \in IntentResponses
           /\ (llm_out.content = "None" \/ llm_out.json # "object") => it = "knowledge"
           /\ (llm_out.json = "object" /\ llm_out.intent.type # "str") => it = "knowledge"
           /\ (llm_out.json = "object" /\ llm_out.intent.type = "str") =>
                  LET n == lower(strip(llm_out.intent.s))
                  IN  IF \E l \in allowed : label_chars[l] = n
                      THEN label_chars[it] = n
                      ELSE it = "knowledge"

\* the classification call answered {"intent": "ambiguous"} and answer goes on
\* with knowledge
C6_Witness ==
    /\ pc = "llm_reply" /\ rule_it = "unknown"
    /\ llm_out.json = "object" /\ llm_out.intent = IntentValue("str", <<"a", "m", "b", "i", "g", "u", "o", "u", "s">>)
    /\ it = "knowledge" /\ prompt.kind = "knowledge"

\* C7: a classification call that raises does not make answer raise.
C7_ClassificationFailureAbsorbed == ret # Raised("llm_intent")

\* C8 as stated: at most one retrieval call and at most one language-model
\* call per answer, the retrieval first.
C8_OneModelCall ==
    /\ count(calls, "retrieval") <= 1
    /\ count(calls, "llm_intent") + count(calls, "llm_reply") <= 1
    /\ \A m, n \in DOMAIN calls : (calls[m] = "retrieval" /\ calls[n] # "retrieval") => m < n

\* C8 amended: at most one retrieval call and at most two language-model calls
\* per answer: at most one classification call, which comes first, and at most
\* one reply call, which comes last; the retrieval call, if any, comes before
\* the reply call.
C8_CallSequence ==
    /\ count(calls, "llm_intent") <= 1
    /\ count(calls, "retrieval") <= 1
    /\ count(calls, "llm_reply") <= 1
    /\ \A n \in DOMAIN calls :
           /\ calls[n] \in {"llm_intent", "retrieval", "llm_reply"}
           /\ calls[n] = "llm_intent" => n = 1
           /\ calls[n] = "llm_reply" => n = Len(calls)

\* a call that made all three outbound calls
C8_Witness == pc = "done" /\ calls = <<"llm_intent", "retrieval", "llm_reply">>

\* C9: with final intent greet, meta, symptom or knowledge answer does not ask
\* for a reading, whatever the sample data and prediction are: greet and meta
\* return a canned reply, symptom and knowledge go to the reply call with a
\* prompt made of the question alone.  "tôm tôi bị đen mang, bỏ ăn" is symptom
\* by the rules.
C9_NoReadingNeeded ==
    /\ (dispatched /\ it \in {"greet", "meta"}) =>
           pc = "done" /\ ret.kind = "return" /\ ret.src = "pick"
    /\ (dispatched /\ it \in {"symptom", "knowledge"}) =>
           /\ ~refused
           /\ prompt = Prompt(it, question, <<>>, <<>>)
           /\ count(calls, "llm_reply") = 1 /\ count(calls, "retrieval") = 0
           /\ pc = "done" => ret.src \in {"llm", "llm_reply"}
    /\ (question = q_black_gills /\ pc # "idle") =>
           rule_it = "symptom" /\ it = "symptom" /\ prompt.kind = "symptom"

\* the symptom question answered from the symptom prompt with no sample data
\* and no prediction
C9_Witness ==
    /\ question = q_black_gills /\ water_data = EmptyDict /\ prediction = EmptyDict
    /\ pc = "done" /\ prompt.kind = "symptom" /\ ret.kind = "return" /\ ret.src = "llm"

\* C10: the priority tag of the block rendered from a result of predict is P1
\* if the risk label is 1 or the environment label is 0, and P2 otherwise.
C10_PriorityTag ==
    summary # <<>> =>
        summary.priority = IF y.y1 = 1 \/ y.y3 = 0 THEN "P1" ELSE "P2"

\* risk label 1 with a suitable environment, tagged P1
C10_Witness == summary # <<>> /\ y.y1 = 1 /\ y.y3 = 1 /\ summary.priority = "P1"

\* C11: in every result predict returns, the reported estimate is
\* round(exp(reported log estimate), 2): it can be recomputed from the
\* reported (three-decimal) log estimate.
C11_EstFromReportedLog ==
    stage = "returned" =>
        result.task2_vibrio_est = exp_round2[result.task2_vibrio_log * 10]

\* C12: each classification label outside {0, 1} is reported with the text
\* "Khong xac dinh" in a result predict still returns, and the labels 0 and 1
\* with the text of their lookup table.
C12_UndeterminedLabel ==
    stage = "returned" =>
        /\ result.task1_label = y.y1 /\ result.task3_label = y.y3 /\ result.task4_label = y.y4
        /\ result.task1_text = IF y.y1 \in {0, 1} THEN risk_map[y.y1] ELSE undetermined
        /\ result.task3_text = IF y.y3 \in {0, 1} THEN env_map[y.y3] ELSE undetermined
        /\ result.task4_text = IF y.y4 \in {0, 1} THEN algae_map[y.y4] ELSE undetermined

\* predict returned for a risk label of 2 and an algae label of -1
C12_Witness ==
    /\ stage = "returned" /\ y.y1 = 2 /\ y.y3 = 1 /\ y.y4 = -1
    /\ result.task1_text = undetermined /\ result.task4_text = undetermined
    /\ result.task3_text = env_map[1]

pronouns ==
    {<<"B", "aj", "n">>, <<"b", "aj", "n">>, <<"T", "oo", "i">>, <<"t", "oo", "i">>}

\* "khong", "nhanh", "nghiem trong"
dialect_words ==
    {<<"k", "h", "oo", "n", "g">>, <<"n", "h", "a", "n", "h">>,
     <<"n", "g", "h", "i", "ee", "m", " ", "t", "r", "oj", "n", "g">>}

\* positions of t where w stands, in any letter case
occurrences(t, w) ==
    {n \in 1..Len(t) : n + Len(w) - 1 <= Len(t) /\ lower(SubSeq(t, n, n + Len(w) - 1)) = w}

\* the occurrence of w at n touches a letter, digit or underscore of t
inside_token(t, n, w) ==
    \/ n > 1 /\ t[n - 1] \in word_chars
    \/ n + Len(w) <= Len(t) /\ t[n + Len(w)] \in word_chars

\* C14: localizing a text that has been localized changes nothing:
\* _localize_text(_localize_text(t)) = _localize_text(t).
C14_Idempotent == Len(passes) = 2 => passes[2] = passes[1]

\* a text the first pass rewrote and the second left alone
C14_Witness ==
    /\ Len(passes) = 2 /\ passes[2] = passes[1] /\ passes[1] # strip(raw)
    /\ \E w \in pronouns : contains(w, raw)

\* C15: the substitutions of "khong", "nhanh" and "nghiem trong" touch whole
\* words only: a text without pronouns in which each of these words stands
\* inside a longer token comes back as it was (trimmed), and each of the three
\* words on its own comes back as its dialect word.
C15_WholeWordOnly ==
    Len(passes) >= 1 =>
        /\ ( /\ \A p \in pronouns : ~contains(p, raw)
              /\ \A w \in dialect_words : \A n \in occurrences(raw, w) : inside_token(raw, n, w) )
            => passes[1] = strip(raw)
        /\ raw = <<"K", "h", "oo", "n", "g">> => passes[1] = <<"h", "oo", "n", "g">>
        /\ raw = <<"n", "h", "a", "n", "h">> => passes[1] = <<"l", "ej">>
        /\ raw = <<"n", "g", "h", "i", "ee", "m", " ", "t", "r", "oj", "n", "g">>
            => passes[1] = <<"c", "aw", "n", "g">>

\* "kKhongbe" localized: the word stands inside a longer token
C15_Witness ==
    /\ Len(passes) >= 1
    /\ raw = <<"k", "K", "h", "oo", "n", "g", "b", "ef">>
    /\ passes[1] = raw

\* C16: a token that is longer than a pronoun and merely contains "ban" or
\* "toi" in either letter case comes back from _localize_text unchanged.
C16_PronounInsideToken ==
    ( /\ Len(passes) >= 1
      /\ \A n \in 1..Len(raw) : raw[n] \in word_chars
      /\ raw \notin pronouns
      /\ \E w \in pronouns : contains(w, raw) )
    => passes[1] = raw

\* the retrieval of the current call gave nothing usable: no knowledge base,
\* a query that raised, or an absent, None, empty or blank result
no_retrieved_text ==
    \/ qa_chain = "None"
    \/ rag_resp.kind = "raise"
    \/ rag_resp.kind = "return" /\ \A n \in 1..Len(or_empty(rag_resp.value)) : rag_resp.value[n] \in whitespace

\* C17: retrieval is best effort.  Only the advice branch queries the
\* knowledge base; without a knowledge base, after a query that raised or after
\* an empty result, advice still goes on to its one reply call, with "(khong
\* co)" in place of the snippet; a retrieval failure is never what answer raises.
C17_RetrievalBestEffort ==
    /\ count(calls, "retrieval") > 0 => it = "advice" /\ qa_chain = "chain"
    /\ rag_resp.kind # "none" =>
           /\ calls[Len(calls)] = "llm_reply" /\ count(calls, "retrieval") = 1
           /\ pc \in {"llm_reply", "done"}
           /\ ret.kind = "raise" => ret.src = "llm_reply"
    /\ (dispatched /\ it = "advice" /\ has_data /\ has_pred /\ pc # "retrieval") =>
           /\ count(calls, "llm_reply") = 1
           /\ prompt.kind = "advice"
           /\ no_retrieved_text => prompt.rag = no_snippet
           /\ ~no_retrieved_text => prompt.rag = strip(rag_resp.value)
           /\ qa_chain = "None" => count(calls, "retrieval") = 0

\* the query raised and answer returned the reply written without a snippet
C17_Witness ==
    /\ rag_resp.kind = "raise" /\ pc = "done"
    /\ prompt.rag = no_snippet /\ ret.kind = "return" /\ ret.src = "llm"

\* C18: a reply-generation call that fails makes answer raise that failure:
\* the call is made once and never again, and answer returns the whole
\* localized content of a call that returned, or raises, and nothing else.
C18_ReplyFailurePropagates ==
    /\ count(calls, "llm_reply") <= 1
    /\ reply_resp.kind = "raise" => pc = "done" /\ ret = Raised("llm_reply")
    /\ reply_resp.kind = "return" =>
           /\ pc = "done"
           /\ ret = Returned("llm", _localize_text(strip(or_empty(reply_resp.value))))
    /\ (ret.kind = "return" /\ count(calls, "llm_reply") = 1) => reply_resp.kind = "return"

\* the reply call of an advice request failed, after a retrieval that worked
C18_Witness ==
    /\ reply_resp.kind = "raise" /\ prompt.kind = "advice" /\ rag_resp.kind = "return"
    /\ ret = Raised("llm_reply")

\* C19: when the final intent is greet or meta, answer returns one of the two
\* canned replies of that intent, with no retrieval and no reply-generation
\* call, whatever the sample data and the prediction are.
C19_CannedReply ==
    /\ Cardinality(greet_replies) = 2 /\ Cardinality(meta_replies) = 2
    /\ (dispatched /\ it \in {"greet", "meta"}) =>
           /\ pc = "done" /\ ret.kind = "return"
           /\ ret.text \in (IF it = "greet" THEN greet_replies ELSE meta_replies)
           /\ count(calls, "retrieval") = 0 /\ count(calls, "llm_reply") = 0
           /\ rag_resp = NotCalled /\ reply_resp = NotCalled /\ prompt = NoPrompt

\* a greeting answered with a canned reply while a reading is at hand
C19_Witness ==
    /\ it = "greet" /\ pc = "done" /\ has_data /\ has_pred
    /\ ret.text \in greet_replies

\* the turns a session holds
history(s) == dict_get(s, "chat_history", <<>>)

\* the turns of h are the first turns of g, unchanged
kept(h, g) == Len(h) <= Len(g) /\ SubSeq(g, 1, Len(h)) = h

\* the session belongs to a user whose row is gone
orphaned == "nguoi_dung_id" \in DOMAIN session /\ session["nguoi_dung_id"] \notin users

\* C20: the chat history is append-only: a chat request leaves the turns held
\* as they are and only adds turns after them, and turns go away only by a
\* clear-chat request, a login or a logout.
C20_AppendOnly ==
    [][ /\ (\E q \in chat_questions, a \in answers : chat(q, a))
            => kept(history(session), history(session'))
        /\ ~kept(history(session), history(session'))
            => clear_chat \/ logout \/ \E u \in UserIds : login(u) ]_vars

\* C20 as the code has it: the same, for a session whose user still exists;
\* any request of a session whose user row is gone resets the whole session.
C20_AppendOnlyWhileUserExists ==
    [][ /\ ((\E q \in chat_questions, a \in answers : chat(q, a)) /\ ~orphaned)
            => /\ kept(history(session), history(session'))
               /\ Len(history(session')) \in {Len(history(session)), Len(history(session)) + 2}
        /\ ~kept(history(session), history(session'))
            => orphaned \/ clear_chat \/ logout \/ \E u \in UserIds : login(u)
        /\ orphaned =>
               \/ session' = session
               \/ session' = EmptyDict
               \/ \E u \in UserIds : login(u) ]_vars

\* a second exchange stands after the first in the history
C20_Witness ==
    /\ Len(history(session)) = 4
    /\ history(session)[1].content # history(session)[3].content
    /\ ~orphaned

\* C21: construction fails fast.  When an artifact cannot be loaded or the
\* credential is missing, the import of app.py raises: no agent exists and no
\* question is ever answered; a question is answered only by an agent built
\* after the pipeline loaded, with the credential set.
C21_FailFast ==
    /\ error # NoError => stage = "new" /\ boot.rag = "unset" /\ boot.agent = "none" /\ pc = "idle"
    /\ boot.api_key = "" => boot.agent # "built" /\ boot.vectordb # "db" /\ pc = "idle" /\ calls = <<>>
    /\ boot.agent = "failed" => qa_chain = "None" /\ pc = "idle"
    /\ pc # "idle" => stage = "loaded" /\ error = NoError /\ boot.agent = "built" /\ boot.api_key # ""

\* the artifacts loaded, and the agent failed for want of the credential
C21_Witness == stage = "loaded" /\ boot.agent = "failed" /\ boot.api_key = "" /\ pc = "idle"

\* C22: sample data counts as available exactly when one of the eleven
\* chemistry fields is present with a value other than None, "" and "None": a
\* record of identifier and date fields only, or no record, is no data and has
\* analysis and advice answered by the fixed refusal; a chemistry value of 0
\* counts as present.
C22_ChemistryFieldPresent ==
    pc # "idle" =>
        /\ has_data <=>
               \E k \in {"NHIET_DO", "PH", "DO", "NO2", "NH4", "DO_MAN", "DO_TRONG", "PO43", "NO3",
                          "COD", "DO_KIEM"} :
                   /\ k \in DOMAIN water_data
                   /\ water_data[k] # V_None /\ water_data[k] # V_str("") /\ water_data[k] # V_str("None")
        /\ water_data \in {EmptyDict, sample_ids, sample_other} => ~has_data
        /\ water_data \in {sample_zero, sample_int_zero} => has_data
        /\ (dispatched /\ it \in {"analysis", "advice"} /\ ~has_data) =>
               /\ pc = "done"
               /\ ret \in {Returned("fixed", analysis_first), Returned("fixed", advice_first)}

\* a record whose only reading is a nitrite of 0 was analysed
C22_Witness ==
    /\ pc = "done" /\ water_data = sample_zero /\ has_data /\ has_pred
    /\ it = "analysis" /\ prompt.kind = "analysis" /\ ret.kind = "return" /\ ret.src # "fixed"

\* the session belongs to a user whose row is there
signed_in == "nguoi_dung_id" \in DOMAIN session /\ session["nguoi_dung_id"] \in users

\* the session holds a previous prediction
holds_prediction(s) == "last_results" \in DOMAIN s /\ "last_input" \in DOMAIN s

\* the result and the input row a session holds
pair(s) == [input |-> dict_get(s, "last_input", <<>>), result |-> dict_get(s, "last_results", <<>>)]

\* pipeline.predict returned for the form
succeeds(sub) == "task1_text" \in DOMAIN sub.result

\* turns of user and assistant by turns, the user first
alternates(h) ==
    /\ Len(h) % 2 = 0
    /\ \A i \in 1..Len(h) : h[i].role = (IF i % 2 = 1 THEN "user" ELSE "assistant")

\* C23: a /chat request of a session without a previous prediction never
\* calls the agent, whatever the question, and its assistant turn is the fixed
\* "enter the readings and press Du doan first" message; the agent is called
\* exactly when the session holds both last_results and last_input.
C23_NoPredictionNoAgent ==
    [][ /\ \A q \in chat_questions, a \in answers :
              (chat(q, a) /\ signed_in /\ strip(q) # <<>>) =>
                  /\ answered' = holds_prediction(session)
                  /\ ~holds_prediction(session) =>
                         /\ Len(history(session')) = Len(history(session)) + 2
                         /\ history(session')[Len(history(session'))].role = "assistant"
                         /\ history(session')[Len(history(session'))].content = predict_first
        /\ (answered' /\ ~answered) => holds_prediction(session) /\ signed_in ]_vars

\* a question asked before any prediction got the fixed message
C23_Witness ==
    /\ signed_in /\ ~holds_prediction(session) /\ ~answered
    /\ Len(history(session)) = 2 /\ history(session)[2].content = predict_first
    /\ Len(tin_nhan_chat) = 2 /\ tin_nhan_chat[2].vai = "assistant"

\* C24: after any sequence of login, logout, predict, chat and clear-chat
\* requests, last_results is held iff last_input is held, and the two come from
\* the same submission, the latest one predict returned for; a prediction that
\* raises and a clear-chat leave both as they are.
C24_PredictionPair ==
    [][ /\ ("last_results" \in DOMAIN session') <=> ("last_input" \in DOMAIN session')
        /\ holds_prediction(session') => \E sub \in submissions : succeeds(sub) /\ pair(session') = sub
        /\ \A sub \in submissions :
              (predict_datapoint(sub) /\ signed_in) =>
                  pair(session') = (IF succeeds(sub) THEN sub ELSE pair(session))
        /\ (clear_chat /\ signed_in) => pair(session') = pair(session)
        /\ (\E q \in chat_questions, a \in answers : chat(q, a)) /\ signed_in => pair(session') = pair(session)
        /\ pair(session') # pair(session) =>
              \/ \E sub \in submissions : succeeds(sub) /\ predict_datapoint(sub)
              \/ logout
              \/ \E u \in UserIds : login(u)
              \/ ~signed_in ]_vars

\* the session holds the row and the result of the second form
C24_Witness ==
    /\ signed_in /\ holds_prediction(session)
    /\ session["last_input"] = sample_acid /\ session["last_results"] = predict(1, 50004, 0, 0)

\* C25: after any sequence of chat and clear-chat requests the history has
\* even length and alternates user, assistant; a chat that succeeds with a
\* question that is not blank appends one user turn and then one assistant
\* turn, and a chat with a blank question appends nothing.
C25_AlternatingTurns ==
    [][ /\ alternates(history(session'))
        /\ \A q \in chat_questions, a \in answers :
              (chat(q, a) /\ signed_in) =>
                  IF strip(q) = <<>> THEN history(session') = history(session)
                  ELSE IF holds_prediction(session) /\ a = "raise" THEN TRUE
                  ELSE /\ Len(history(session')) = Len(history(session)) + 2
                       /\ kept(history(session), history(session'))
                       /\ history(session')[Len(history(session)) + 1].role = "user"
                       /\ history(session')[Len(history(session)) + 1].content = strip(q)
                       /\ history(session')[Len(history(session)) + 2].role = "assistant" ]_vars

\* two exchanges, the second one answered by the agent
C25_Witness ==
    /\ signed_in /\ Len(history(session)) = 4 /\ alternates(history(session))
    /\ holds_prediction(session) /\ history(session)[4].content = advice_first

\* C26: when agent.answer raises in a /chat request the history of the
\* session stays as it was; the request adds to tin_nhan_chat at most its user
\* row, and no assistant row after it.
C26_RaiseKeepsHistory ==
    [][ \A q \in chat_questions :
          (chat(q, "raise") /\ signed_in /\ strip(q) # <<>> /\ holds_prediction(session)) =>
              /\ Len(history(session')) = Len(history(session))
              /\ kept(history(session), history(session'))
              /\ Len(tin_nhan_chat') \in {0, 1}
              /\ Len(tin_nhan_chat') = 1 =>
                     /\ tin_nhan_chat'[1].vai = "user"
                     /\ tin_nhan_chat'[1].noi_dung = strip(q) ]_vars

\* the question is in the table with no answer after it, and no turn was added
C26_Witness ==
    /\ signed_in /\ holds_prediction(session) /\ answered
    /\ history(session) = <<>>
    /\ Len(tin_nhan_chat) = 1 /\ tin_nhan_chat[1].vai = "user"

\* the row of the user of the session
account == accounts[session["nguoi_dung_id"]]

\* the session is flagged as that of an officer with a valid staff code
flagged(s) == dict_get(s, "ma_can_bo_hop_le", FALSE)

\* the stored staff code, trimmed and in upper case, is one of OFFICER_CODES
code_configured(u) == upper(strip(or_empty(u.ma_can_bo))) \in get_officer_codes

\* C27: the two severity derivations agree on the results predict returns:
\* the notice made from a result of priority P1 (risk label 1 or environment
\* label 0) has level "danger".
C27_SeverityAgrees ==
    [][ \A sub \in submissions :
          (predict_datapoint(sub) /\ Len(thong_bao') = Len(thong_bao) + 1
               /\ _risk_to_priority(sub.result) = "P1") =>
              thong_bao'[Len(thong_bao')].muc_do = "danger" ]_vars

\* the table holds a read record of notice n for user u
read_by(rows, n, u) ==
    \E i \in 1..Len(rows) : rows[i].thong_bao_id = n /\ rows[i].nguoi_dung_id = u

\* notice n is addressed to user u, or is a commune notice of the commune of u
meant_for(n, u) ==
    \E m \in 1..Len(thong_bao) :
        /\ thong_bao[m].id = n
        /\ \/ thong_bao[m].target_user_id = u
           \/ /\ thong_bao[m].scope_type = "commune"
              /\ thong_bao[m].scope_value = lower(strip(or_empty(accounts[u].xa)))

C30_OnlyConfiguredCodes ==
    [][ /\ flagged(session') => account'.vai_tro = "officer" /\ code_configured(account')
        /\ (officer_harvest /\ response' = "officer_harvest.html") => code_configured(account')
        /\ Len(thong_bao') > Len(thong_bao) => code_configured(account')
        /\ \A u \in UserIds :
              (accounts'[u] # accounts[u] /\ accounts'[u].vai_tro = "officer") => code_configured(accounts'[u]) ]_vars

\* C30 as the code has it: the same, with any staff code that is not blank
\* counting as valid while OFFICER_CODES names no code.
C30_ConfiguredCodesOrNone ==
    [][ /\ flagged(session') =>
              /\ account'.vai_tro = "officer"
              /\ get_officer_codes = {} \/ code_configured(account')
        /\ (officer_harvest /\ response' = "officer_harvest.html") => flagged(session')
        /\ Len(thong_bao') > Len(thong_bao) =>
              /\ flagged(session')
              /\ thong_bao'[Len(thong_bao')].nguoi_tao_id = session'["nguoi_dung_id"]
        /\ \A u \in UserIds :
              (accounts'[u] # accounts[u] /\ accounts'[u].vai_tro = "officer") =>
                  /\ or_empty(accounts'[u].ma_can_bo) # <<>>
                  /\ get_officer_codes = {} \/ code_configured(accounts'[u])
        /\ (get_officer_codes = {} /\ "nguoi_dung_id" \in DOMAIN session) =>
              \A staff_code \in {c \in staff_codes : strip(c) # <<>>}, commune \in communes :
                  profile("officer", staff_code, commune, TRUE) =>
                      flagged(session') /\ account'.ma_can_bo = upper(strip(staff_code)) ]_vars

\* with OFFICER_CODES not set, the officer page answered a user whose staff
\* code is ZZ9
C30_Witness ==
    /\ officer_env = <<>> /\ response = "officer_harvest.html"
    /\ flagged(session) /\ account.ma_can_bo = <<"Z", "Z", "9">>

\* C28: a missing or failing retrieval index does not keep the agent from
\* being built: load_rag_db gives None when no PDF is found, the application
\* takes None when it raises, and the agent built then has qa_chain None and
\* answers without any retrieval call.  Only the credential fails the agent.
C28_AgentWithoutIndex ==
    /\ boot.rag \in {"no_pdf", "raise"} =>
           /\ boot.vectordb = "None" /\ qa_chain = "None"
           /\ count(calls, "retrieval") = 0 /\ rag_resp = NotCalled
           /\ boot.agent = "failed" => boot.api_key = ""
    /\ boot.agent = "built" => qa_chain = (IF boot.vectordb = "None" THEN "None" ELSE "chain")

\* load_rag_db raised and the agent answered an advice question all the same
C28_Witness ==
    /\ boot.rag = "raise" /\ boot.agent = "built"
    /\ pc = "done" /\ it = "advice" /\ prompt.kind = "advice" /\ ret.kind = "return"

====
